---- MODULE Spec2Model ----
(***************************************************************************)
(* StepWise hint progression engine: the session endpoints               *)
(* (backend/api/sessions.py), the layer state machine                    *)
(* (backend/services/session_manager.py), the understanding evaluator,   *)
(* the problem classifier, the hint generator with its post-processor    *)
(* and the solution generator.                                            *)
(*                                                                         *)
(* Text is modelled as a sequence of characters, one string per           *)
(* character; a non-ASCII character is written "uXXXX" after its code     *)
(* point (the renaming is one-to-one, so substring tests, lengths and     *)
(* pattern matches are those of the Python strings).                      *)
(***************************************************************************)
EXTENDS Integers, Sequences, FiniteSets, TLC

\* ------------------------------------------------------------------------
\* Bounds of the model
\* ------------------------------------------------------------------------
\* longest enumerated collaborator completion, in characters
MaxCandLen == 3
\* number of respond requests that are accepted (rows of student_responses)
MaxTurns == 4
\* number of reveal requests that are served (rows of full_solutions)
MaxReveals == 2

\* ------------------------------------------------------------------------
\* Enumerations (backend/models/enums.py)
\* ------------------------------------------------------------------------
ProblemType ==
    {"linear_equation_1var", "linear_equation_2var", "quadratic_equation",
     "geometry_basic", "arithmetic", "unknown"}

HintLayer == {"concept", "strategy", "step", "completed", "revealed"}

SessionStatus == {"active", "paused", "completed", "revealed", "abandoned"}

UnderstandingLevel == {"understood", "confused", "explicit_confused"}

\* ------------------------------------------------------------------------
\* Python str operations on character sequences
\* ------------------------------------------------------------------------
\* characters str.strip() removes and \s matches
Whitespace == {" ", "\t", "\n", "\r", "\f"}

\* characters \d matches
Digits == {"0", "1", "2", "3", "4", "5", "6", "7", "8", "9"}

\* str.lower() on the ASCII capitals, character by character
LowerMap ==
       "A" :> "a" @@ "B" :> "b" @@ "C" :> "c" @@ "D" :> "d" @@ "E" :> "e" @@ "F" :> "f"
    @@ "G" :> "g" @@ "H" :> "h" @@ "I" :> "i" @@ "J" :> "j" @@ "K" :> "k" @@ "L" :> "l"
    @@ "M" :> "m" @@ "N" :> "n" @@ "O" :> "o" @@ "P" :> "p" @@ "Q" :> "q" @@ "R" :> "r"
    @@ "S" :> "s" @@ "T" :> "t" @@ "U" :> "u" @@ "V" :> "v" @@ "W" :> "w" @@ "X" :> "x"
    @@ "Y" :> "y" @@ "Z" :> "z"

UpperCase == DOMAIN LowerMap

\* str.lower()
lower(s) == [i \in 1..Len(s) |-> IF s[i] \in UpperCase THEN LowerMap[s[i]] ELSE s[i]]

RECURSIVE lstrip(_)
lstrip(s) ==
    IF Len(s) > 0 /\ s[1] \in Whitespace THEN lstrip(Tail(s)) ELSE s

RECURSIVE rstrip(_)
rstrip(s) ==
    IF Len(s) > 0 /\ s[Len(s)] \in Whitespace
    THEN rstrip(SubSeq(s, 1, Len(s) - 1))
    ELSE s

\* str.strip()
strip(s) == rstrip(lstrip(s))

\* sub in s
Contains(s, sub) ==
    \E i \in 1..(Len(s) - Len(sub) + 1) : SubSeq(s, i, i + Len(sub) - 1) = sub

\* s.startswith(prefix)
StartsWith(s, prefix) ==
    Len(s) >= Len(prefix) /\ SubSeq(s, 1, Len(prefix)) = prefix

\* s.find(sub) as a 1-based index, 0 when sub does not occur
Find(s, sub) ==
    IF Contains(s, sub)
    THEN CHOOSE i \in 1..(Len(s) - Len(sub) + 1) :
            /\ SubSeq(s, i, i + Len(sub) - 1) = sub
            /\ \A j \in 1..(i - 1) : SubSeq(s, j, j + Len(sub) - 1) # sub
    ELSE 0

\* s.replace(old, new) for a non-empty old, scanning from position i
RECURSIVE ReplaceFrom(_, _, _, _)
ReplaceFrom(s, old, new, i) ==
    IF i > Len(s) THEN <<>>
    ELSE IF i + Len(old) - 1 <= Len(s) /\ SubSeq(s, i, i + Len(old) - 1) = old
         THEN new \o ReplaceFrom(s, old, new, i + Len(old))
         ELSE <<s[i]>> \o ReplaceFrom(s, old, new, i + 1)

Replace(s, old, new) == ReplaceFrom(s, old, new, 1)

\* A regular expression of the post-processor is a sequence of elements
\* [set, rep]: one character of set ("one"), an optional one ("opt") or any
\* number of them ("star").  In every pattern below the character after a
\* starred or optional element lies outside that element's set, so the greedy
\* match needs no backtracking.  MatchFrom is the index after the match of
\* pat[k..] at position i of s, 0 when there is none.
RECURSIVE MatchFrom(_, _, _, _)
MatchFrom(pat, k, s, i) ==
    IF k > Len(pat) THEN i
    ELSE LET here == i <= Len(s) /\ s[i] \in pat[k].set
         IN  CASE pat[k].rep = "one" ->
                    IF here THEN MatchFrom(pat, k + 1, s, i + 1) ELSE 0
               [] pat[k].rep = "opt" ->
                    IF here THEN MatchFrom(pat, k + 1, s, i + 1)
                    ELSE MatchFrom(pat, k + 1, s, i)
               [] pat[k].rep = "star" ->
                    IF here THEN MatchFrom(pat, k, s, i + 1)
                    ELSE MatchFrom(pat, k + 1, s, i)

\* re.search(pat, s) is not None
re_search(pat, s) == \E i \in 1..Len(s) : MatchFrom(pat, 1, s, i) # 0

\* re.sub(pat, repl, s): leftmost non-overlapping matches, from position i
RECURSIVE SubFrom(_, _, _, _)
SubFrom(pat, repl, s, i) ==
    IF i > Len(s) THEN <<>>
    ELSE LET e == MatchFrom(pat, 1, s, i)
         IN  IF e # 0 THEN repl \o SubFrom(pat, repl, s, e)
             ELSE <<s[i]>> \o SubFrom(pat, repl, s, i + 1)

re_sub(pat, repl, s) == SubFrom(pat, repl, s, 1)

One(S) == [set |-> S, rep |-> "one"]
Opt(S) == [set |-> S, rep |-> "opt"]
Star(S) == [set |-> S, rep |-> "star"]

\* \s*-?\d+
SignedNumber == <<Star(Whitespace), Opt({"-"}), One(Digits), Star(Digits)>>

\* ------------------------------------------------------------------------
\* HintPostProcessor (backend/services/hint_postprocessor.py)
\* ------------------------------------------------------------------------
\* [是为：:]
IsOrColon == {"u662f", "u4e3a", "uff1a", ":"}

ANSWER_PATTERNS ==
    << \* [xyzXYZ]\s*=\s*-?\d+
       <<One({"x", "y", "z", "X", "Y", "Z"}), Star(Whitespace), One({"="})>>
           \o SignedNumber,
       \* 等于\s*-?\d+
       <<One({"u7b49"}), One({"u4e8e"})>> \o SignedNumber,
       \* 答案[是为：:]\s*-?\d+
       <<One({"u7b54"}), One({"u6848"}), One(IsOrColon)>> \o SignedNumber,
       \* 结果[是为：:]\s*-?\d+
       <<One({"u7ed3"}), One({"u679c"}), One(IsOrColon)>> \o SignedNumber >>

NEGATIVE_WORDS ==
    << <<"u9519">>, <<"u4e0d", "u5bf9">>, <<"u9519", "u8bef">>,
       <<"w", "r", "o", "n", "g">>,
       <<"i", "n", "c", "o", "r", "r", "e", "c", "t">>,
       <<"m", "i", "s", "t", "a", "k", "e">>,
       <<"u7b28">>, <<"u50bb">>, <<"u8822">> >>

\* "[...]"
Ellipsis == <<"[", ".", ".", ".", "]">>

\* "让我们一起来思考这道题。"
EmptyContentHint ==
    <<"u8ba9", "u6211", "u4eec", "u4e00", "u8d77", "u6765", "u601d", "u8003",
      "u8fd9", "u9053", "u9898", "u3002">>

\* problem_answer=None; the code tests the argument for truth, and so treats
\* None and the empty string alike
NoAnswer == <<>>

PostProcessResult(content, was_filtered, filter_reason) ==
    [content |-> content, was_filtered |-> was_filtered,
     filter_reason |-> filter_reason]

\* a slip in process: the negative words are looked for before the answers
process_negative_first(hint_content, problem_answer) ==
    IF strip(hint_content) = <<>>
    THEN PostProcessResult(EmptyContentHint, TRUE, "empty_content")
    ELSE IF \E w \in 1..Len(NEGATIVE_WORDS) : Contains(lower(hint_content), NEGATIVE_WORDS[w])
    THEN PostProcessResult(hint_content, TRUE, "negative_word")
    ELSE IF \E p \in 1..Len(ANSWER_PATTERNS) : re_search(ANSWER_PATTERNS[p], hint_content)
    THEN LET p == CHOOSE q \in 1..Len(ANSWER_PATTERNS) :
                     /\ re_search(ANSWER_PATTERNS[q], hint_content)
                     /\ \A r \in 1..(q - 1) : ~re_search(ANSWER_PATTERNS[r], hint_content)
         IN  PostProcessResult(re_sub(ANSWER_PATTERNS[p], Ellipsis, hint_content),
                               TRUE, "answer_leak")
    ELSE IF Len(problem_answer) > 0 /\ Contains(hint_content, problem_answer)
    THEN PostProcessResult(Replace(hint_content, problem_answer, Ellipsis),
                           TRUE, "direct_answer_leak")
    ELSE PostProcessResult(hint_content, FALSE, "none")

\* HintPostProcessor.process; filter_reason "none" stands for None
process(hint_content, problem_answer) ==
    IF strip(hint_content) = <<>>
    THEN PostProcessResult(EmptyContentHint, TRUE, "empty_content")
    ELSE IF \E p \in 1..Len(ANSWER_PATTERNS) : re_search(ANSWER_PATTERNS[p], hint_content)
    THEN LET p == CHOOSE q \in 1..Len(ANSWER_PATTERNS) :
                     /\ re_search(ANSWER_PATTERNS[q], hint_content)
                     /\ \A r \in 1..(q - 1) : ~re_search(ANSWER_PATTERNS[r], hint_content)
         IN  PostProcessResult(re_sub(ANSWER_PATTERNS[p], Ellipsis, hint_content),
                               TRUE, "answer_leak")
    ELSE IF Len(problem_answer) > 0 /\ Contains(hint_content, problem_answer)
    THEN PostProcessResult(Replace(hint_content, problem_answer, Ellipsis),
                           TRUE, "direct_answer_leak")
    ELSE IF \E w \in 1..Len(NEGATIVE_WORDS) : Contains(lower(hint_content), NEGATIVE_WORDS[w])
    THEN PostProcessResult(hint_content, TRUE, "negative_word")
    ELSE PostProcessResult(hint_content, FALSE, "none")

\* ------------------------------------------------------------------------
\* HintGenerator (backend/services/hint_generator.py)
\* ------------------------------------------------------------------------
\* the layers that have a prompt template (keys of LAYER_PROMPTS_EN)
LAYER_PROMPTS_EN == {"concept", "strategy", "step"}

\* keys of LAYER_PROMPTS_ZH
LAYER_PROMPTS_ZH == {"concept", "strategy", "step"}

\* FALLBACK_HINTS entry, hint_generator.py line 79
HINT_EN_CONCEPT_LINEAR_EQUATION_1VAR ==
    <<"T", "h", "i", "s", " ", "i", "s", " ", "a", " ", "l", "i", "n", "e", "a", "r", " ", "e",
      "q", "u", "a", "t", "i", "o", "n", " ", "w", "i", "t", "h", " ", "o", "n", "e", " ", "v",
      "a", "r", "i", "a", "b", "l", "e", ".", " ", "D", "o", " ", "y", "o", "u", " ", "r", "e",
      "m", "e", "m", "b", "e", "r", " ", "t", "h", "e", " ", "b", "a", "s", "i", "c", " ", "p",
      "r", "o", "p", "e", "r", "t", "i", "e", "s", " ", "o", "f", " ", "e", "q", "u", "a", "t",
      "i", "o", "n", "s", "?", " ", "T", "h", "i", "n", "k", " ", "a", "b", "o", "u", "t", " ",
      "w", "h", "a", "t", " ", "o", "p", "e", "r", "a", "t", "i", "o", "n", "s", " ", "y", "o",
      "u", " ", "c", "a", "n", " ", "d", "o", " ", "t", "o", " ", "b", "o", "t", "h", " ", "s",
      "i", "d", "e", "s", " ", "w", "h", "i", "l", "e", " ", "k", "e", "e", "p", "i", "n", "g",
      " ", "t", "h", "e", " ", "e", "q", "u", "a", "t", "i", "o", "n", " ", "b", "a", "l", "a",
      "n", "c", "e", "d", ".">>

\* FALLBACK_HINTS entry, hint_generator.py line 80
HINT_EN_CONCEPT_QUADRATIC_EQUATION ==
    <<"T", "h", "i", "s", " ", "i", "s", " ", "a", " ", "q", "u", "a", "d", "r", "a", "t", "i",
      "c", " ", "e", "q", "u", "a", "t", "i", "o", "n", ".", " ", "W", "h", "a", "t", " ", "m",
      "e", "t", "h", "o", "d", "s", " ", "d", "o", " ", "y", "o", "u", " ", "k", "n", "o", "w",
      " ", "f", "o", "r", " ", "s", "o", "l", "v", "i", "n", "g", " ", "q", "u", "a", "d", "r",
      "a", "t", "i", "c", " ", "e", "q", "u", "a", "t", "i", "o", "n", "s", "?", " ", "T", "h",
      "i", "n", "k", " ", "a", "b", "o", "u", "t", " ", "f", "a", "c", "t", "o", "r", "i", "n",
      "g", ",", " ", "c", "o", "m", "p", "l", "e", "t", "i", "n", "g", " ", "t", "h", "e", " ",
      "s", "q", "u", "a", "r", "e", ",", " ", "o", "r", " ", "t", "h", "e", " ", "q", "u", "a",
      "d", "r", "a", "t", "i", "c", " ", "f", "o", "r", "m", "u", "l", "a", ".">>

\* FALLBACK_HINTS entry, hint_generator.py line 81
HINT_EN_CONCEPT_LINEAR_EQUATION_2VAR ==
    <<"T", "h", "i", "s", " ", "i", "s", " ", "a", " ", "s", "y", "s", "t", "e", "m", " ", "o",
      "f", " ", "l", "i", "n", "e", "a", "r", " ", "e", "q", "u", "a", "t", "i", "o", "n", "s",
      ".", " ", "H", "o", "w", " ", "m", "i", "g", "h", "t", " ", "w", "e", " ", "e", "l", "i",
      "m", "i", "n", "a", "t", "e", " ", "o", "n", "e", " ", "o", "f", " ", "t", "h", "e", " ",
      "v", "a", "r", "i", "a", "b", "l", "e", "s", "?">>

\* FALLBACK_HINTS entry, hint_generator.py line 82
HINT_EN_CONCEPT_GEOMETRY_BASIC ==
    <<"T", "h", "i", "s", " ", "i", "s", " ", "a", " ", "g", "e", "o", "m", "e", "t", "r", "y",
      " ", "p", "r", "o", "b", "l", "e", "m", ".", " ", "L", "e", "t", "'", "s", " ", "s", "t",
      "a", "r", "t", " ", "b", "y", " ", "r", "e", "v", "i", "e", "w", "i", "n", "g", " ", "t",
      "h", "e", " ", "r", "e", "l", "e", "v", "a", "n", "t", " ", "f", "o", "r", "m", "u", "l",
      "a", "s", " ", "a", "n", "d", " ", "p", "r", "o", "p", "e", "r", "t", "i", "e", "s", ".">>

\* FALLBACK_HINTS entry, hint_generator.py line 83
HINT_EN_CONCEPT_ARITHMETIC ==
    <<"T", "h", "i", "s", " ", "i", "s", " ", "a", "n", " ", "a", "r", "i", "t", "h", "m", "e",
      "t", "i", "c", " ", "p", "r", "o", "b", "l", "e", "m", ".", " ", "L", "e", "t", "'", "s",
      " ", "l", "o", "o", "k", " ", "c", "a", "r", "e", "f", "u", "l", "l", "y", " ", "a", "t",
      " ", "t", "h", "e", " ", "o", "r", "d", "e", "r", " ", "o", "f", " ", "o", "p", "e", "r",
      "a", "t", "i", "o", "n", "s", ".">>

\* FALLBACK_HINTS entry, hint_generator.py line 84
HINT_EN_CONCEPT_UNKNOWN ==
    <<"L", "e", "t", "'", "s", " ", "a", "n", "a", "l", "y", "z", "e", " ", "t", "h", "i", "s",
      " ", "p", "r", "o", "b", "l", "e", "m", " ", "t", "o", "g", "e", "t", "h", "e", "r", ".",
      " ", "F", "i", "r", "s", "t", ",", " ", "c", "a", "n", " ", "y", "o", "u", " ", "t", "e",
      "l", "l", " ", "m", "e", " ", "w", "h", "a", "t", " ", "t", "h", "e", " ", "p", "r", "o",
      "b", "l", "e", "m", " ", "i", "s", " ", "a", "s", "k", "i", "n", "g", "?">>

\* FALLBACK_HINTS entry, hint_generator.py line 87
HINT_EN_STRATEGY_LINEAR_EQUATION_1VAR ==
    <<"G", "r", "e", "a", "t", "!", " ", "N", "o", "w", " ", "t", "h", "i", "n", "k", " ", "a",
      "b", "o", "u", "t", " ", "h", "o", "w", " ", "t", "o", " ", "s", "o", "l", "v", "e", " ",
      "f", "o", "r", " ", "x", ".", " ", "W", "h", "a", "t", " ", "i", "f", " ", "w", "e", " ",
      "p", "u", "t", " ", "a", "l", "l", " ", "t", "h", "e", " ", "x", " ", "t", "e", "r", "m",
      "s", " ", "o", "n", " ", "o", "n", "e", " ", "s", "i", "d", "e", " ", "a", "n", "d", " ",
      "t", "h", "e", " ", "n", "u", "m", "b", "e", "r", "s", " ", "o", "n", " ", "t", "h", "e",
      " ", "o", "t", "h", "e", "r", "?">>

\* FALLBACK_HINTS entry, hint_generator.py line 90
HINT_EN_STEP_LINEAR_EQUATION_1VAR ==
    <<"N", "o", "w", " ", "l", "e", "t", "'", "s", " ", "d", "o", " ", "t", "h", "e", " ", "f",
      "i", "r", "s", "t", " ", "s", "t", "e", "p", ".", " ", "L", "o", "o", "k", " ", "a", "t",
      " ", "t", "h", "e", " ", "l", "e", "f", "t", " ", "s", "i", "d", "e", " ", "o", "f", " ",
      "t", "h", "e", " ", "e", "q", "u", "a", "t", "i", "o", "n", " ", "-", " ", "w", "h", "a",
      "t", " ", "c", "a", "n", " ", "w", "e", " ", "m", "o", "v", "e", " ", "t", "o", " ", "t",
      "h", "e", " ", "r", "i", "g", "h", "t", " ", "s", "i", "d", "e", "?">>

\* FALLBACK_HINTS entry, hint_generator.py line 96
HINT_ZH_CONCEPT_LINEAR_EQUATION_1VAR ==
    <<"u8fd9", "u662f", "u4e00", "u9053", "u4e00", "u5143", "u4e00", "u6b21", "u65b9", "u7a0b",
      "u3002", "u4f60", "u8fd8", "u8bb0", "u5f97", "u4ec0", "u4e48", "u662f", "u7b49", "u5f0f",
      "u7684", "u57fa", "u672c", "u6027", "u8d28", "u5417", "uff1f", "u60f3", "u4e00", "u60f3",
      "uff0c", "u6211", "u4eec", "u53ef", "u4ee5", "u5bf9", "u7b49", "u5f0f", "u7684", "u4e24",
      "u8fb9", "u505a", "u4ec0", "u4e48", "u64cd", "u4f5c", "u800c", "u4fdd", "u6301", "u7b49",
      "u5f0f", "u6210", "u7acb", "uff1f">>

\* FALLBACK_HINTS entry, hint_generator.py line 97
HINT_ZH_CONCEPT_QUADRATIC_EQUATION ==
    <<"u8fd9", "u662f", "u4e00", "u9053", "u4e00", "u5143", "u4e8c", "u6b21", "u65b9", "u7a0b",
      "u3002", "u4f60", "u77e5", "u9053", "u6709", "u54ea", "u4e9b", "u65b9", "u6cd5", "u53ef",
      "u4ee5", "u89e3", "u4e8c", "u6b21", "u65b9", "u7a0b", "u5417", "uff1f", "u6bd4", "u5982",
      "u56e0", "u5f0f", "u5206", "u89e3", "u3001", "u914d", "u65b9", "u6cd5", "u6216", "u6c42",
      "u6839", "u516c", "u5f0f", "uff1f">>

\* FALLBACK_HINTS entry, hint_generator.py line 98
HINT_ZH_CONCEPT_LINEAR_EQUATION_2VAR ==
    <<"u8fd9", "u662f", "u4e00", "u9053", "u4e8c", "u5143", "u4e00", "u6b21", "u65b9", "u7a0b",
      "u7ec4", "u3002", "u60f3", "u60f3", "u770b", "uff0c", "u6211", "u4eec", "u600e", "u6837",
      "u624d", "u80fd", "u6d88", "u53bb", "u5176", "u4e2d", "u4e00", "u4e2a", "u672a", "u77e5",
      "u6570", "u5462", "uff1f">>

\* FALLBACK_HINTS entry, hint_generator.py line 99
HINT_ZH_CONCEPT_GEOMETRY_BASIC ==
    <<"u8fd9", "u662f", "u4e00", "u9053", "u51e0", "u4f55", "u9898", "u3002", "u8ba9", "u6211",
      "u4eec", "u5148", "u56de", "u987e", "u4e00", "u4e0b", "u76f8", "u5173", "u7684", "u51e0",
      "u4f55", "u516c", "u5f0f", "u548c", "u5b9a", "u7406", "u3002">>

\* FALLBACK_HINTS entry, hint_generator.py line 100
HINT_ZH_CONCEPT_ARITHMETIC ==
    <<"u8fd9", "u662f", "u4e00", "u9053", "u8ba1", "u7b97", "u9898", "u3002", "u8ba9", "u6211",
      "u4eec", "u4ed4", "u7ec6", "u770b", "u770b", "u8fd0", "u7b97", "u7684", "u987a", "u5e8f",
      "u3002">>

\* FALLBACK_HINTS entry, hint_generator.py line 101
HINT_ZH_CONCEPT_UNKNOWN ==
    <<"u8ba9", "u6211", "u4eec", "u4e00", "u8d77", "u5206", "u6790", "u8fd9", "u9053", "u9898",
      "u76ee", "u3002", "u9996", "u5148", "uff0c", "u4f60", "u80fd", "u544a", "u8bc9", "u6211",
      "u8fd9", "u9053", "u9898", "u5728", "u95ee", "u4ec0", "u4e48", "u5417", "uff1f">>

\* FALLBACK_HINTS entry, hint_generator.py line 104
HINT_ZH_STRATEGY_LINEAR_EQUATION_1VAR ==
    <<"u5f88", "u597d", "uff01", "u73b0", "u5728", "u60f3", "u60f3", "uff0c", "u4e3a", "u4e86",
      "u6c42", "u51fa", "x", "u7684", "u503c", "uff0c", "u6211", "u4eec", "u5e94", "u8be5",
      "u600e", "u6837", "u5904", "u7406", "u7b49", "u5f0f", "uff1f", "u628a", "u542b", "x",
      "u7684", "u9879", "u653e", "u5728", "u4e00", "u8fb9", "uff0c", "u5e38", "u6570", "u653e",
      "u5728", "u53e6", "u4e00", "u8fb9", "uff1f">>

\* FALLBACK_HINTS entry, hint_generator.py line 107
HINT_ZH_STEP_LINEAR_EQUATION_1VAR ==
    <<"u73b0", "u5728", "uff0c", "u8ba9", "u6211", "u4eec", "u6267", "u884c", "u7b2c", "u4e00",
      "u6b65", "u3002", "u770b", "u770b", "u7b49", "u5f0f", "u5de6", "u8fb9", "uff0c", "u6709",
      "u4ec0", "u4e48", "u53ef", "u4ee5", "u79fb", "u5230", "u53f3", "u8fb9", "u7684", "u5417",
      "uff1f">>

FALLBACK_HINTS_EN ==
    ("concept" :>
        (   "linear_equation_1var" :> HINT_EN_CONCEPT_LINEAR_EQUATION_1VAR
         @@ "quadratic_equation" :> HINT_EN_CONCEPT_QUADRATIC_EQUATION
         @@ "linear_equation_2var" :> HINT_EN_CONCEPT_LINEAR_EQUATION_2VAR
         @@ "geometry_basic" :> HINT_EN_CONCEPT_GEOMETRY_BASIC
         @@ "arithmetic" :> HINT_EN_CONCEPT_ARITHMETIC
         @@ "unknown" :> HINT_EN_CONCEPT_UNKNOWN))
    @@ ("strategy" :> ("linear_equation_1var" :> HINT_EN_STRATEGY_LINEAR_EQUATION_1VAR))
    @@ ("step" :> ("linear_equation_1var" :> HINT_EN_STEP_LINEAR_EQUATION_1VAR))

FALLBACK_HINTS_ZH ==
    ("concept" :>
        (   "linear_equation_1var" :> HINT_ZH_CONCEPT_LINEAR_EQUATION_1VAR
         @@ "quadratic_equation" :> HINT_ZH_CONCEPT_QUADRATIC_EQUATION
         @@ "linear_equation_2var" :> HINT_ZH_CONCEPT_LINEAR_EQUATION_2VAR
         @@ "geometry_basic" :> HINT_ZH_CONCEPT_GEOMETRY_BASIC
         @@ "arithmetic" :> HINT_ZH_CONCEPT_ARITHMETIC
         @@ "unknown" :> HINT_ZH_CONCEPT_UNKNOWN))
    @@ ("strategy" :> ("linear_equation_1var" :> HINT_ZH_STRATEGY_LINEAR_EQUATION_1VAR))
    @@ ("step" :> ("linear_equation_1var" :> HINT_ZH_STEP_LINEAR_EQUATION_1VAR))

\* the value of a call that raised instead of returning
Raised == <<"(raised)">>

\* dict.get(key, default) on a table whose rows are functions
Get(table, key, default) == IF key \in DOMAIN table THEN table[key] ELSE default

\* locale.startswith("en")
is_english(locale) == StartsWith(locale, <<"e", "n">>)

\* a slip in _get_fallback: the layer's row is indexed without a default, and
\* a type the row lacks raises KeyError
get_fallback_keyerror(problem_type, layer, locale) ==
    LET fallbacks == IF is_english(locale) THEN FALLBACK_HINTS_EN ELSE FALLBACK_HINTS_ZH
    IN  Get(Get(fallbacks, layer, <<>>), problem_type, Raised)

\* HintGenerator._get_fallback; the default concept_fallbacks[UNKNOWN] is
\* evaluated before the lookup, and raises KeyError when it is missing
get_fallback(problem_type, layer, locale) ==
    LET fallbacks == IF is_english(locale) THEN FALLBACK_HINTS_EN ELSE FALLBACK_HINTS_ZH
        layer_fallbacks == Get(fallbacks, layer, <<>>)
        concept_fallbacks == Get(fallbacks, "concept", <<>>)
    IN  IF problem_type \in DOMAIN layer_fallbacks
        THEN layer_fallbacks[problem_type]
        ELSE IF "unknown" \notin DOMAIN concept_fallbacks
        THEN Raised
        ELSE Get(concept_fallbacks, problem_type, concept_fallbacks["unknown"])

\* The text-completion collaborator: absent (None), raising, or returning text
LLMAbsent == [kind |-> "absent", text |-> <<>>]

LLMRaises == [kind |-> "raises", text |-> <<>>]

LLMReturns(text) == [kind |-> "returns", text |-> text]

\* whether _generate_content returns the collaborator's completion: a
\* collaborator is configured, the layer has a prompt, and complete() returns
uses_completion(llm, layer, locale) ==
    LET prompts == IF is_english(locale) THEN LAYER_PROMPTS_EN ELSE LAYER_PROMPTS_ZH
    IN  llm.kind # "absent" /\ layer \in prompts /\ llm.kind = "returns"

\* HintGenerator._generate_content
generate_content(llm, problem_type, layer, locale) ==
    IF uses_completion(llm, layer, locale)
    THEN llm.text
    ELSE get_fallback(problem_type, layer, locale)

\* the post-processor call of HintGenerator.generate (line 154) on a text of
\* the fallback bank: no answer is passed
process_content(content) ==
    IF content = Raised THEN PostProcessResult(Raised, FALSE, "none")
    ELSE process(content, NoAnswer)

\* process_content of every cell of the fallback bank, evaluated once
ProcessedFallback ==
    [problem_type \in ProblemType, layer \in HintLayer, english \in BOOLEAN |->
        process_content(get_fallback(problem_type, layer,
                                     IF english THEN <<"e", "n">> ELSE <<"z", "h">>))]

\* the post-processor call of HintGenerator.generate (line 154)
generate_processed(llm, problem_type, layer, locale) ==
    IF uses_completion(llm, layer, locale)
    THEN process_content(generate_content(llm, problem_type, layer, locale))
    ELSE ProcessedFallback[problem_type, layer, is_english(locale)]

\* a slip in generate: the filter's content is used whatever the reason
generate_redacted(llm, problem_type, layer, sequence, is_downgrade, locale) ==
    [content |-> generate_processed(llm, problem_type, layer, locale).content,
     layer |-> layer, sequence |-> sequence, is_downgrade |-> is_downgrade]

\* a slip in generate: the fallback is taken whenever the filter flags the
\* content, whatever the reason
generate_fallback_when_filtered(llm, problem_type, layer, sequence, is_downgrade, locale) ==
    LET processed == generate_processed(llm, problem_type, layer, locale)
        content == IF processed.was_filtered
                   THEN get_fallback(problem_type, layer, locale)
                   ELSE processed.content
    IN  [content |-> content, layer |-> layer, sequence |-> sequence,
         is_downgrade |-> is_downgrade]

\* HintGenerator.generate
generate(llm, problem_type, layer, sequence, is_downgrade, locale) ==
    LET processed == generate_processed(llm, problem_type, layer, locale)
        content == IF processed.was_filtered
                      /\ processed.filter_reason \in {"answer_leak", "direct_answer_leak"}
                   THEN get_fallback(problem_type, layer, locale)
                   ELSE processed.content
    IN  [content |-> content, layer |-> layer, sequence |-> sequence,
         is_downgrade |-> is_downgrade]

\* ------------------------------------------------------------------------
\* SolutionGenerator (backend/services/solution_generator.py)
\* ------------------------------------------------------------------------
\* FALLBACK_SOLUTIONS entry, solution_generator.py line 37
SOLUTION_LINEAR_EQUATION_1VAR ==
    [steps |-> <<
        [description |->
            <<"u79fb", "u9879", "uff1a", "u5c06", "u5e38", "u6570", "u9879", "u79fb", "u5230",
              "u7b49", "u5f0f", "u53f3", "u8fb9">>,
         result |->
            <<"3", "x", " ", "=", " ", "1", "4", " ", "-", " ", "5">>],
        [description |->
            <<"u8ba1", "u7b97", "u53f3", "u8fb9">>,
         result |->
            <<"3", "x", " ", "=", " ", "9">>],
        [description |->
            <<"u4e24", "u8fb9", "u540c", "u9664", "u4ee5", "u7cfb", "u6570">>,
         result |->
            <<"x", " ", "=", " ", "9", " ", "u00f7", " ", "3">>],
        [description |->
            <<"u5f97", "u51fa", "u7ed3", "u679c">>,
         result |->
            <<"x", " ", "=", " ", "3">>]
     >>,
     final_answer |->
        <<"x", " ", "=", " ", "3">>,
     explanation |->
        <<"u8fd9", "u662f", "u4e00", "u9053", "u4e00", "u5143", "u4e00", "u6b21", "u65b9",
          "u7a0b", "uff0c", "u901a", "u8fc7", "u79fb", "u9879", "u548c", "u7b49", "u5f0f",
          "u6027", "u8d28", "u6c42", "u89e3", "u3002">>]

\* FALLBACK_SOLUTIONS entry, solution_generator.py line 47
SOLUTION_QUADRATIC_EQUATION ==
    [steps |-> <<
        [description |->
            <<"u8bc6", "u522b", "u65b9", "u7a0b", "u5f62", "u5f0f">>,
         result |->
            <<"u6807", "u51c6", "u4e8c", "u6b21", "u65b9", "u7a0b", " ", "a", "x", "u00b2",
              " ", "+", " ", "b", "x", " ", "+", " ", "c", " ", "=", " ", "0">>],
        [description |->
            <<"u5c1d", "u8bd5", "u56e0", "u5f0f", "u5206", "u89e3", "u6216", "u4f7f", "u7528",
              "u6c42", "u6839", "u516c", "u5f0f">>,
         result |->
            <<"u5206", "u89e3", "u4e3a", " ", "(", "x", "-", "p", ")", "(", "x", "-", "q", ")",
              " ", "=", " ", "0">>],
        [description |->
            <<"u6c42", "u89e3", "u6bcf", "u4e2a", "u56e0", "u5b50">>,
         result |->
            <<"x", " ", "=", " ", "p", " ", "u6216", " ", "x", " ", "=", " ", "q">>]
     >>,
     final_answer |->
        <<"x", " ", "=", " ", "2", " ", "u6216", " ", "x", " ", "=", " ", "3">>,
     explanation |->
        <<"u4e8c", "u6b21", "u65b9", "u7a0b", "u53ef", "u4ee5", "u901a", "u8fc7", "u56e0",
          "u5f0f", "u5206", "u89e3", "u3001", "u914d", "u65b9", "u6cd5", "u6216", "u6c42",
          "u6839", "u516c", "u5f0f", "u6c42", "u89e3", "u3002">>]

\* FALLBACK_SOLUTIONS entry, solution_generator.py line 56
SOLUTION_LINEAR_EQUATION_2VAR ==
    [steps |-> <<
        [description |->
            <<"u9009", "u62e9", "u6d88", "u5143", "u6cd5", "u6216", "u4ee3", "u5165", "u6cd5">>,
         result |->
            <<"u786e", "u5b9a", "u6d88", "u53bb", "u54ea", "u4e2a", "u53d8", "u91cf">>],
        [description |->
            <<"u6d88", "u53bb", "u4e00", "u4e2a", "u53d8", "u91cf">>,
         result |->
            <<"u5f97", "u5230", "u4e00", "u5143", "u65b9", "u7a0b">>],
        [description |->
            <<"u6c42", "u89e3", "u5f97", "u5230", "u7684", "u4e00", "u5143", "u65b9", "u7a0b">>,
         result |->
            <<"u5f97", "u5230", "u7b2c", "u4e00", "u4e2a", "u53d8", "u91cf", "u7684", "u503c">>],
        [description |->
            <<"u4ee3", "u5165", "u6c42", "u53e6", "u4e00", "u4e2a", "u53d8", "u91cf">>,
         result |->
            <<"u5f97", "u5230", "u7b2c", "u4e8c", "u4e2a", "u53d8", "u91cf", "u7684", "u503c">>]
     >>,
     final_answer |->
        <<"x", " ", "=", " ", "a", ",", " ", "y", " ", "=", " ", "b">>,
     explanation |->
        <<"u4e8c", "u5143", "u4e00", "u6b21", "u65b9", "u7a0b", "u7ec4", "u901a", "u8fc7",
          "u6d88", "u5143", "u6216", "u4ee3", "u5165", "u6cd5", "u6c42", "u89e3", "u3002">>]

\* FALLBACK_SOLUTIONS entry, solution_generator.py line 66
SOLUTION_GEOMETRY_BASIC ==
    [steps |-> <<
        [description |->
            <<"u786e", "u5b9a", "u56fe", "u5f62", "u7c7b", "u578b", "u548c", "u5df2", "u77e5",
              "u6761", "u4ef6">>,
         result |->
            <<"u8bc6", "u522b", "u51e0", "u4f55", "u56fe", "u5f62">>],
        [description |->
            <<"u9009", "u62e9", "u5408", "u9002", "u7684", "u516c", "u5f0f">>,
         result |->
            <<"u9762", "u79ef", "/", "u5468", "u957f", "u516c", "u5f0f">>],
        [description |->
            <<"u4ee3", "u5165", "u6570", "u503c", "u8ba1", "u7b97">>,
         result |->
            <<"u8ba1", "u7b97", "u7ed3", "u679c">>]
     >>,
     final_answer |->
        <<"u9762", "u79ef", " ", "=", " ", "1", "2">>,
     explanation |->
        <<"u51e0", "u4f55", "u9898", "u9700", "u8981", "u6b63", "u786e", "u8bc6", "u522b",
          "u56fe", "u5f62", "u5e76", "u5e94", "u7528", "u76f8", "u5e94", "u516c", "u5f0f",
          "u3002">>]

\* FALLBACK_SOLUTIONS entry, solution_generator.py line 75
SOLUTION_ARITHMETIC ==
    [steps |-> <<
        [description |->
            <<"u6309", "u8fd0", "u7b97", "u987a", "u5e8f", "u5904", "u7406">>,
         result |->
            <<"u5148", "u4e58", "u9664", "u540e", "u52a0", "u51cf">>],
        [description |->
            <<"u9010", "u6b65", "u8ba1", "u7b97">>,
         result |->
            <<"u4e2d", "u95f4", "u7ed3", "u679c">>],
        [description |->
            <<"u5f97", "u51fa", "u6700", "u7ec8", "u7ed3", "u679c">>,
         result |->
            <<"u6700", "u7ec8", "u7b54", "u6848">>]
     >>,
     final_answer |->
        <<"4", "2">>,
     explanation |->
        <<"u7b97", "u672f", "u8fd0", "u7b97", "u9700", "u8981", "u9075", "u5faa", "u8fd0",
          "u7b97", "u4f18", "u5148", "u7ea7", "u3002">>]

\* FALLBACK_SOLUTIONS entry, solution_generator.py line 84
SOLUTION_UNKNOWN ==
    [steps |-> <<
        [description |->
            <<"u5206", "u6790", "u9898", "u76ee", "u8981", "u6c42">>,
         result |->
            <<"u7406", "u89e3", "u95ee", "u9898">>],
        [description |->
            <<"u9009", "u62e9", "u89e3", "u9898", "u65b9", "u6cd5">>,
         result |->
            <<"u786e", "u5b9a", "u7b56", "u7565">>],
        [description |->
            <<"u6267", "u884c", "u8ba1", "u7b97">>,
         result |->
            <<"u5f97", "u51fa", "u7b54", "u6848">>]
     >>,
     final_answer |->
        <<"u8bf7", "u6839", "u636e", "u9898", "u76ee", "u5177", "u4f53", "u8ba1", "u7b97">>,
     explanation |->
        <<"u6570", "u5b66", "u9898", "u9700", "u8981", "u4ed4", "u7ec6", "u5206", "u6790",
          "uff0c", "u9009", "u62e9", "u5408", "u9002", "u7684", "u65b9", "u6cd5", "u6c42",
          "u89e3", "u3002">>]

FALLBACK_SOLUTIONS ==
       "linear_equation_1var" :> SOLUTION_LINEAR_EQUATION_1VAR
    @@ "quadratic_equation" :> SOLUTION_QUADRATIC_EQUATION
    @@ "linear_equation_2var" :> SOLUTION_LINEAR_EQUATION_2VAR
    @@ "geometry_basic" :> SOLUTION_GEOMETRY_BASIC
    @@ "arithmetic" :> SOLUTION_ARITHMETIC
    @@ "unknown" :> SOLUTION_UNKNOWN

\* the value of a SolutionGenerator call that raised
SolutionRaised == [steps |-> <<>>, final_answer |-> Raised, explanation |-> Raised]

\* SolutionGenerator._get_fallback
solution_get_fallback(problem_type) ==
    IF "unknown" \notin DOMAIN FALLBACK_SOLUTIONS
    THEN SolutionRaised
    ELSE Get(FALLBACK_SOLUTIONS, problem_type, FALLBACK_SOLUTIONS["unknown"])

\* str.split(sep) for a non-empty sep
RECURSIVE Split(_, _)
Split(s, sep) ==
    LET i == Find(s, sep)
    IN  IF i = 0 THEN <<s>>
        ELSE <<SubSeq(s, 1, i - 1)>> \o Split(SubSeq(s, i + Len(sep), Len(s)), sep)

\* str.split(sep, 1)
SplitOnce(s, sep) ==
    LET i == Find(s, sep)
    IN  IF i = 0 THEN <<s>>
        ELSE <<SubSeq(s, 1, i - 1), SubSeq(s, i + Len(sep), Len(s))>>

\* "步骤", "最终答案", "解释", "->"
StepMarker == <<"u6b65", "u9aa4">>

FinalAnswerMarker == <<"u6700", "u7ec8", "u7b54", "u6848">>

ExplanationMarker == <<"u89e3", "u91ca">>

Arrow == <<"-", ">">>

\* one pass of the loop of _parse_llm_response over lines[k..]
RECURSIVE ParseLines(_, _, _)
ParseLines(lines, k, acc) ==
    IF k > Len(lines) THEN acc
    ELSE LET line == strip(lines[k])
             parts == SplitOnce(line, <<":">>)
             step_parts == Split(parts[2], Arrow)
             last == strip(parts[Len(parts)])
         IN  IF StartsWith(line, StepMarker) /\ Contains(line, Arrow)
             THEN IF Len(parts) = 2 /\ Len(step_parts) = 2
                  THEN ParseLines(lines, k + 1,
                         [acc EXCEPT !.steps = Append(@,
                             [description |-> strip(step_parts[1]),
                              result |-> strip(step_parts[2])])])
                  ELSE ParseLines(lines, k + 1, acc)
             ELSE IF StartsWith(line, FinalAnswerMarker)
             THEN ParseLines(lines, k + 1, [acc EXCEPT !.final_answer = last])
             ELSE IF StartsWith(line, ExplanationMarker)
             THEN ParseLines(lines, k + 1, [acc EXCEPT !.explanation = last])
             ELSE ParseLines(lines, k + 1, acc)

\* the steps, final answer and explanation the loop of _parse_llm_response
\* collects from a response
parsed_response(response) ==
    ParseLines(Split(strip(response), <<"\n">>), 1,
               [steps |-> <<>>, final_answer |-> <<>>, explanation |-> <<>>])

\* SolutionGenerator._parse_llm_response
parse_llm_response(response) ==
    LET parsed == parsed_response(response)
    IN  IF parsed.steps = <<>> \/ parsed.final_answer = <<>>
        THEN solution_get_fallback("unknown")
        ELSE parsed

\* SolutionGenerator.generate
solution_generate(llm, problem_type) ==
    IF llm.kind = "returns"
    THEN parse_llm_response(llm.text)
    ELSE solution_get_fallback(problem_type)

\* ------------------------------------------------------------------------
\* UnderstandingEvaluator (backend/services/understanding_evaluator.py)
\* ------------------------------------------------------------------------
MIN_RESPONSE_LENGTH == 10

EXPLICIT_CONFUSION_PHRASES ==
    <<
      <<"u4e0d", "u61c2">>,
      <<"u4e0d", "u77e5", "u9053">>,
      <<"u4e0d", "u4f1a">>,
      <<"u4e0d", "u660e", "u767d">>,
      <<"u770b", "u4e0d", "u61c2">>,
      <<"u641e", "u4e0d", "u61c2">>,
      <<"u4e0d", "u7406", "u89e3">>,
      <<"u6ca1", "u542c", "u61c2">>,
      <<"u4e0d", "u592a", "u61c2">>,
      <<"u770b", "u4e0d", "u660e", "u767d">>
    >>

\* the class attribute KEYWORDS_BY_TYPE as it is when the module is loaded
KEYWORDS_BY_TYPE_INITIAL ==
       "linear_equation_1var" :> <<
            <<"u79fb", "u9879">>,
            <<"u7b49", "u5f0f">>,
            <<"u65b9", "u7a0b">>,
            <<"u672a", "u77e5", "u6570">>,
            <<"u89e3">>,
            <<"x">>,
            <<"u4e24", "u8fb9">>,
            <<"u7cfb", "u6570">>,
            <<"u5e38", "u6570">>,
            <<"u5408", "u5e76">>,
            <<"u540c", "u7c7b", "u9879">>
          >>
    @@ "quadratic_equation" :> <<
            <<"u56e0", "u5f0f">>,
            <<"u5206", "u89e3">>,
            <<"u914d", "u65b9">>,
            <<"u6c42", "u6839", "u516c", "u5f0f">>,
            <<"u5224", "u522b", "u5f0f">>,
            <<"u4e8c", "u6b21">>,
            <<"u6839">>,
            <<"u89e3">>,
            <<"u65b9", "u7a0b">>
          >>
    @@ "linear_equation_2var" :> <<
            <<"u6d88", "u5143">>,
            <<"u4ee3", "u5165">>,
            <<"u65b9", "u7a0b", "u7ec4">>,
            <<"u672a", "u77e5", "u6570">>,
            <<"u89e3">>
          >>
    @@ "geometry_basic" :> <<
            <<"u9762", "u79ef">>,
            <<"u5468", "u957f">>,
            <<"u516c", "u5f0f">>,
            <<"u89d2">>,
            <<"u8fb9">>,
            <<"u76f4", "u89d2">>,
            <<"u4e09", "u89d2", "u5f62">>,
            <<"u5706">>,
            <<"u6b63", "u65b9", "u5f62">>,
            <<"u77e9", "u5f62">>
          >>
    @@ "arithmetic" :> <<
            <<"u52a0">>,
            <<"u51cf">>,
            <<"u4e58">>,
            <<"u9664">>,
            <<"u8fd0", "u7b97">>,
            <<"u987a", "u5e8f">>,
            <<"u62ec", "u53f7">>
          >>
    @@ "unknown" :> <<
            <<"u65b9", "u6cd5">>,
            <<"u6b65", "u9aa4">>,
            <<"u601d", "u8def">>,
            <<"u89e3", "u51b3">>
          >>

\* UnderstandingEvaluator._contains_explicit_confusion
contains_explicit_confusion(text) ==
    \E p \in 1..Len(EXPLICIT_CONFUSION_PHRASES) :
        Contains(lower(text), EXPLICIT_CONFUSION_PHRASES[p])

\* KEYWORDS_BY_TYPE after the keywords.extend(...) of _find_matching_keywords:
\* keywords is the table's own list, so the Unknown list is appended to it in
\* place (for Unknown itself the list is appended to itself)
keywords_extended(table, problem_type) ==
    [table EXCEPT ![problem_type] = @ \o table["unknown"]]

\* a slip in _find_matching_keywords: the Unknown list is left out
find_matching_keywords_own_list(text, problem_type, table) ==
    LET keywords == table[problem_type]
    IN  {keywords[i] : i \in {j \in 1..Len(keywords) :
                                 Contains(lower(text), lower(keywords[j]))}}

\* UnderstandingEvaluator._find_matching_keywords: list(set(matched)), as a set
find_matching_keywords(text, problem_type, table) ==
    LET keywords == keywords_extended(table, problem_type)[problem_type]
    IN  {keywords[i] : i \in {j \in 1..Len(keywords) :
                                 Contains(lower(text), lower(keywords[j]))}}

\* a slip in evaluate: the length is looked at before the confusion phrases
evaluate_length_first(response_text, problem_type, layer, table) ==
    LET text == strip(response_text)
        char_count == Len(text)
        keywords_matched == find_matching_keywords(text, problem_type, table)
    IN  IF char_count < MIN_RESPONSE_LENGTH
        THEN [understanding_level |-> "confused", char_count |-> char_count,
              keywords_matched |-> {}, table |-> table]
        ELSE IF contains_explicit_confusion(text)
        THEN [understanding_level |-> "explicit_confused", char_count |-> char_count,
              keywords_matched |-> {}, table |-> table]
        ELSE IF keywords_matched # {}
        THEN [understanding_level |-> "understood", char_count |-> char_count,
              keywords_matched |-> keywords_matched,
              table |-> keywords_extended(table, problem_type)]
        ELSE [understanding_level |-> "confused", char_count |-> char_count,
              keywords_matched |-> {},
              table |-> keywords_extended(table, problem_type)]

\* UnderstandingEvaluator.evaluate on the keyword table it finds; table is the
\* keyword table it leaves behind
evaluate(response_text, problem_type, layer, table) ==
    LET text == strip(response_text)
        char_count == Len(text)
        keywords_matched == find_matching_keywords(text, problem_type, table)
    IN  IF contains_explicit_confusion(text)
        THEN [understanding_level |-> "explicit_confused", char_count |-> char_count,
              keywords_matched |-> {}, table |-> table]
        ELSE IF char_count < MIN_RESPONSE_LENGTH
        THEN [understanding_level |-> "confused", char_count |-> char_count,
              keywords_matched |-> {}, table |-> table]
        ELSE IF keywords_matched # {}
        THEN [understanding_level |-> "understood", char_count |-> char_count,
              keywords_matched |-> keywords_matched,
              table |-> keywords_extended(table, problem_type)]
        ELSE [understanding_level |-> "confused", char_count |-> char_count,
              keywords_matched |-> {},
              table |-> keywords_extended(table, problem_type)]

\* ------------------------------------------------------------------------
\* ProblemClassifier (backend/services/problem_classifier.py)
\* ------------------------------------------------------------------------
\* a slip in _classify_by_rules: the quadratic rule is tried before the
\* two-variable rule
classify_by_rules_quadratic_first(problem_text) ==
    LET text == lower(problem_text)
    IN  IF Contains(text, <<"x", "u00b2">>) \/ Contains(text, <<"x", "^", "2">>)
           \/ Contains(text, <<"x", "2">>)
        THEN "quadratic_equation"
        ELSE IF (Contains(text, <<",">>) \/ Contains(text, <<"uff0c">>))
                /\ Contains(text, <<"x">>) /\ Contains(text, <<"y">>)
        THEN "linear_equation_2var"
        ELSE IF Contains(text, <<"x">>) /\ Contains(text, <<"=">>)
        THEN "linear_equation_1var"
        ELSE IF (Contains(text, <<"u89e3", "u65b9", "u7a0b">>)
                 \/ Contains(text, <<"u6c42", "u89e3">>))
                /\ Contains(text, <<"x">>)
        THEN "linear_equation_1var"
        ELSE "unknown"

\* ProblemClassifier._classify_by_rules
classify_by_rules(problem_text) ==
    LET text == lower(problem_text)
    IN  IF (Contains(text, <<",">>) \/ Contains(text, <<"uff0c">>))
           /\ Contains(text, <<"x">>) /\ Contains(text, <<"y">>)
        THEN "linear_equation_2var"
        ELSE IF Contains(text, <<"x", "u00b2">>) \/ Contains(text, <<"x", "^", "2">>)
                \/ Contains(text, <<"x", "2">>)
        THEN "quadratic_equation"
        ELSE IF Contains(text, <<"x">>) /\ Contains(text, <<"=">>)
        THEN "linear_equation_1var"
        ELSE IF (Contains(text, <<"u89e3", "u65b9", "u7a0b">>)
                 \/ Contains(text, <<"u6c42", "u89e3">>))
                /\ Contains(text, <<"x">>)
        THEN "linear_equation_1var"
        ELSE "unknown"

\* the value of each member of ProblemType, as text
ProblemTypeValue ==
    [t \in ProblemType |->
        CASE t = "linear_equation_1var" ->
               <<"l", "i", "n", "e", "a", "r", "_", "e", "q", "u", "a", "t", "i", "o", "n", "_", "1", "v", "a", "r">>
          [] t = "linear_equation_2var" ->
               <<"l", "i", "n", "e", "a", "r", "_", "e", "q", "u", "a", "t", "i", "o", "n", "_", "2", "v", "a", "r">>
          [] t = "quadratic_equation" ->
               <<"q", "u", "a", "d", "r", "a", "t", "i", "c", "_", "e", "q", "u", "a", "t", "i", "o", "n">>
          [] t = "geometry_basic" ->
               <<"g", "e", "o", "m", "e", "t", "r", "y", "_", "b", "a", "s", "i", "c">>
          [] t = "arithmetic" ->
               <<"a", "r", "i", "t", "h", "m", "e", "t", "i", "c">>
          [] t = "unknown" ->
               <<"u", "n", "k", "n", "o", "w", "n">>]

\* ProblemClassifier._parse_llm_result
parse_llm_result(result) ==
    LET result_lower == strip(lower(result))
    IN  IF \E t \in ProblemType : ProblemTypeValue[t] = result_lower
        THEN CHOOSE t \in ProblemType : ProblemTypeValue[t] = result_lower
        ELSE "unknown"

\* a slip in classify: the collaborator's answer is returned whatever it parses to
classify_trusts_collaborator(llm, problem_text) ==
    IF llm.kind = "returns"
    THEN parse_llm_result(llm.text)
    ELSE classify_by_rules(problem_text)

\* ProblemClassifier.classify; llm is the collaborator: absent, raising in
\* classify(), or returning a text
classify(llm, problem_text) ==
    IF llm.kind = "returns" /\ parse_llm_result(llm.text) # "unknown"
    THEN parse_llm_result(llm.text)
    ELSE classify_by_rules(problem_text)

\* ------------------------------------------------------------------------
\* SessionManager (backend/services/session_manager.py)
\* ------------------------------------------------------------------------
LAYER_ORDER == <<"concept", "strategy", "step">>

CONFUSION_THRESHOLD == 3

LayerTransition(new_layer, should_advance, is_downgrade, reset_confusion) ==
    [new_layer |-> new_layer, should_advance |-> should_advance,
     is_downgrade |-> is_downgrade, reset_confusion |-> reset_confusion]

\* LAYER_ORDER.index(layer)
LayerIndex(layer) == CHOOSE i \in 1..Len(LAYER_ORDER) : LAYER_ORDER[i] = layer

\* a slip in _handle_understood: the index of the next layer is one too far
handle_understood_skip(current_layer) ==
    IF ~(\E i \in 1..Len(LAYER_ORDER) : LAYER_ORDER[i] = current_layer)
    THEN LayerTransition(current_layer, FALSE, FALSE, TRUE)
    ELSE IF LayerIndex(current_layer) + 1 < Len(LAYER_ORDER)
    THEN LayerTransition(LAYER_ORDER[LayerIndex(current_layer) + 2], TRUE, FALSE, TRUE)
    ELSE LayerTransition("completed", TRUE, FALSE, TRUE)

\* a slip in _handle_understood: the final transition does not reset confusion
handle_understood_no_reset(current_layer) ==
    IF ~(\E i \in 1..Len(LAYER_ORDER) : LAYER_ORDER[i] = current_layer)
    THEN LayerTransition(current_layer, FALSE, FALSE, TRUE)
    ELSE IF LayerIndex(current_layer) < Len(LAYER_ORDER)
    THEN LayerTransition(LAYER_ORDER[LayerIndex(current_layer) + 1], TRUE, FALSE, TRUE)
    ELSE LayerTransition("completed", TRUE, FALSE, FALSE)

\* SessionManager._handle_understood
handle_understood(current_layer) ==
    IF ~(\E i \in 1..Len(LAYER_ORDER) : LAYER_ORDER[i] = current_layer)
    THEN LayerTransition(current_layer, FALSE, FALSE, TRUE)
    ELSE IF LayerIndex(current_layer) < Len(LAYER_ORDER)
    THEN LayerTransition(LAYER_ORDER[LayerIndex(current_layer) + 1], TRUE, FALSE, TRUE)
    ELSE LayerTransition("completed", TRUE, FALSE, TRUE)

\* a slip in determine_transition: the count is compared before it is raised
determine_transition_late(current_layer, understanding_level, confusion_count) ==
    IF understanding_level = "understood"
    THEN handle_understood(current_layer)
    ELSE IF confusion_count >= CONFUSION_THRESHOLD
    THEN LayerTransition(current_layer, FALSE, TRUE, FALSE)
    ELSE LayerTransition(current_layer, FALSE, FALSE, FALSE)

\* a slip in determine_transition: the raised count is compared for equality
determine_transition_exact(current_layer, understanding_level, confusion_count) ==
    IF understanding_level = "understood"
    THEN handle_understood(current_layer)
    ELSE IF confusion_count + 1 = CONFUSION_THRESHOLD
    THEN LayerTransition(current_layer, FALSE, TRUE, FALSE)
    ELSE LayerTransition(current_layer, FALSE, FALSE, FALSE)

\* SessionManager.determine_transition
determine_transition(current_layer, understanding_level, confusion_count) ==
    IF understanding_level = "understood"
    THEN handle_understood(current_layer)
    ELSE IF confusion_count + 1 >= CONFUSION_THRESHOLD
    THEN LayerTransition(current_layer, FALSE, TRUE, FALSE)
    ELSE LayerTransition(current_layer, FALSE, FALSE, FALSE)

\* SessionManager.get_next_sequence
get_next_sequence(current_sequence, is_same_layer) ==
    IF is_same_layer THEN current_sequence + 1 ELSE 1

\* a slip in can_reveal_solution: Strategy is let through as well
can_reveal_solution_early(current_layer, status) ==
    IF status \in {"completed", "revealed"} THEN TRUE
    ELSE current_layer \in {"strategy", "step"}

\* SessionManager.can_reveal_solution
can_reveal_solution(current_layer, status) ==
    IF status \in {"completed", "revealed"} THEN TRUE ELSE current_layer = "step"

\* ------------------------------------------------------------------------
\* State
\* ------------------------------------------------------------------------
VARIABLES
    problems,           \* table problems: rows [raw_text, problem_type], id = index
    hint_sessions,      \* table hint_sessions (models/session.py), id = index
    hint_contents,      \* table hint_contents (models/hint_content.py), in insertion order
    student_responses,  \* table student_responses, in insertion order
    full_solutions,     \* table full_solutions, in insertion order
    KEYWORDS_BY_TYPE,   \* class attribute UnderstandingEvaluator.KEYWORDS_BY_TYPE
    response,           \* the HTTP response of the last request
    call,               \* arguments of a generator call under test
    ret                 \* its result

\* RateLimiter (services/rate_limiter.py) and the threads that call it
VARIABLES
    requests,           \* RateLimiter._requests: client id -> deque of timestamps
    lock,               \* RateLimiter._lock: 0 when free, else the thread that holds it
    clock,              \* time.time()
    limiter_threads,    \* per thread: its position in is_allowed, client_id and now
    limiter_log         \* the is_allowed calls that have returned, in order of return

limiterVars == <<requests, lock, clock, limiter_threads, limiter_log>>

\* entitlements (services/entitlements.py) and start requests that carry an
\* X-User-ID header
VARIABLES
    subscriptions,      \* table subscriptions: user id -> row, or NoRow
    usage_records,      \* table usage_records of today, in insertion order
    sessions_started,   \* user id -> number of sessions start_session has committed
    start_requests      \* per request in flight: its position in start_session

usageVars == <<subscriptions, usage_records, sessions_started, start_requests>>

\* learning report emails (services/email_service.py)
VARIABLES
    email_send_logs,           \* table email_send_logs, in insertion order
    email_throttles,           \* table email_throttles, in insertion order
    session_reports_enabled,   \* the recipient's preference
    hour,                      \* the hour of the wall clock
    outbox,                    \* session id -> what the provider was given and delivered
    send_calls,                \* per caller: its position in send_learning_report, and
                               \* how its last call ended
    sends_begun                \* the number of calls made

emailVars ==
    <<email_send_logs, email_throttles, session_reports_enabled, hour, outbox,
      send_calls, sends_begun>>

\* state outside the session endpoints and the generators
serviceVars == <<limiterVars, usageVars, emailVars>>

vars ==
    <<problems, hint_sessions, hint_contents, student_responses, full_solutions,
      KEYWORDS_BY_TYPE, response, call, ret, serviceVars>>

dbVars ==
    <<problems, hint_sessions, hint_contents, student_responses, full_solutions,
      KEYWORDS_BY_TYPE, response>>

\* ------------------------------------------------------------------------
\* Request inputs
\* ------------------------------------------------------------------------
Locales == {<<"e", "n", "-", "U", "S">>, <<"z", "h", "-", "C", "N">>}

DefaultLocale == <<"e", "n", "-", "U", "S">>

\* n copies of the character c
Rep(c, n) == [i \in 1..n |-> c]

\* problem_text of start requests: "3x + 5 = 14", "23 × 17", "hello", "  " and
\* a text of 501 characters
ProblemTexts ==
    { <<"3", "x", " ", "+", " ", "5", " ", "=", " ", "1", "4">>,
      <<"2", "3", " ", "u00d7", " ", "1", "7">>,
      <<"h", "e", "l", "l", "o">>,
      <<" ", " ">>,
      Rep("1", 501) }

\* response_text of respond requests:
\*   "ok", "不懂"                       shorter than 10 characters
\*   " move x over there "             keyword x of the one-variable linear type,
\*                                     no keyword of the other types
\*   "我用这个方法来做题目吧"            keyword 方法 of the Unknown list
\*   "我不懂这个方法怎么做才好"          explicit confusion phrase and a keyword
ResponseTexts ==
    { <<"o", "k">>,
      <<"u4e0d", "u61c2">>,
      <<" ", "m", "o", "v", "e", " ", "x", " ", "o", "v", "e", "r", " ", "t", "h", "e",
        "r", "e", " ">>,
      <<"u6211", "u7528", "u8fd9", "u4e2a", "u65b9", "u6cd5", "u6765", "u505a", "u9898",
        "u76ee", "u5427">>,
      <<"u6211", "u4e0d", "u61c2", "u8fd9", "u4e2a", "u65b9", "u6cd5", "u600e", "u4e48",
        "u505a", "u624d", "u597d">> }

\* The specification follows one session: start_session succeeds once, and the
\* session it creates has id 1.  A request that names it before it exists is
\* answered SESSION_NOT_FOUND.
SessionIds == {1}

NoResponse ==
    [op |-> "none", session_id |-> 0, status_code |-> 0, error |-> "",
     current_layer |-> "", previous_layer |-> "", understanding_level |-> "",
     confusion_count |-> 0, is_downgrade |-> FALSE, can_reveal_solution |-> FALSE,
     status |-> ""]

\* an HTTPException raised by the handler of op
ErrorResponse(op, session_id, status_code, error) ==
    [NoResponse EXCEPT !.op = op, !.session_id = session_id,
                       !.status_code = status_code, !.error = error]

\* ------------------------------------------------------------------------
\* RateLimiter (backend/services/rate_limiter.py)
\* ------------------------------------------------------------------------
\* the largest value of the clock, and the number of is_allowed calls made
MaxClock == 3

MaxCalls == 4

\* RateLimitConfig of the limiter under study
max_requests == 2

window_seconds == 2

LimiterThreads == {1, 2, 3}

ClientIds == {"client1", "client2"}

\* a thread outside is_allowed
IdleThread == [pc |-> "idle", client_id |-> "client1", now |-> 0]

LimiterInit ==
    /\ requests = [c \in ClientIds |-> <<>>]
    /\ lock = 0
    /\ clock = 0
    /\ limiter_threads = [t \in LimiterThreads |-> IdleThread]
    /\ limiter_log = <<>>

\* a slip in is_allowed: the body runs without the lock
lock_ignored(holder) == TRUE

\* with self._lock: the lock can be taken when no thread holds it
lock_free(holder) == holder = 0

\* while requests and requests[0] < window_start: requests.popleft()
RECURSIVE popleft_old(_, _)
popleft_old(timestamps, window_start) ==
    IF timestamps # <<>> /\ timestamps[1] < window_start
    THEN popleft_old(Tail(timestamps), window_start)
    ELSE timestamps

\* is_allowed, lines 47-49: thread t enters with the lock and reads the time
Acquire(t) ==
    /\ limiter_threads[t].pc = "idle"
    /\ Len(limiter_log) + Cardinality({u \in LimiterThreads :
                                          limiter_threads[u].pc # "idle"}) < MaxCalls
    /\ lock_free(lock)
    /\ \E client_id \in ClientIds :
          limiter_threads' = [limiter_threads EXCEPT
              ![t] = [pc |-> "prune", client_id |-> client_id, now |-> clock]]
    /\ lock' = t
    /\ UNCHANGED <<requests, clock, limiter_log>>

\* is_allowed, lines 52-56: the timestamps before the window are dropped
Prune(t) ==
    /\ limiter_threads[t].pc = "prune"
    /\ requests' = [requests EXCEPT ![limiter_threads[t].client_id] =
           popleft_old(@, limiter_threads[t].now - window_seconds)]
    /\ limiter_threads' = [limiter_threads EXCEPT ![t].pc = "check"]
    /\ UNCHANGED <<lock, clock, limiter_log>>

\* is_allowed, lines 59-60: at the limit the call returns False
Check(t) ==
    /\ limiter_threads[t].pc = "check"
    /\ IF Len(requests[limiter_threads[t].client_id]) >= max_requests
       THEN /\ limiter_log' = Append(limiter_log,
                   [client_id |-> limiter_threads[t].client_id,
                    now |-> limiter_threads[t].now, allowed |-> FALSE])
            /\ limiter_threads' = [limiter_threads EXCEPT ![t].pc = "idle"]
            /\ lock' = IF lock = t THEN 0 ELSE lock
       ELSE /\ limiter_threads' = [limiter_threads EXCEPT ![t].pc = "append"]
            /\ UNCHANGED <<limiter_log, lock>>
    /\ UNCHANGED <<requests, clock>>

\* is_allowed, lines 63-64: the request is recorded and the call returns True
AppendRequest(t) ==
    /\ limiter_threads[t].pc = "append"
    /\ requests' = [requests EXCEPT ![limiter_threads[t].client_id] =
           Append(@, limiter_threads[t].now)]
    /\ limiter_log' = Append(limiter_log,
           [client_id |-> limiter_threads[t].client_id,
            now |-> limiter_threads[t].now, allowed |-> TRUE])
    /\ limiter_threads' = [limiter_threads EXCEPT ![t].pc = "idle"]
    /\ lock' = IF lock = t THEN 0 ELSE lock
    /\ UNCHANGED clock

\* time passes
Tick ==
    /\ clock < MaxClock
    /\ clock' = clock + 1
    /\ UNCHANGED <<requests, lock, limiter_threads, limiter_log>>

\* ------------------------------------------------------------------------
\* Entitlements (backend/services/entitlements.py) and the start requests of
\* signed-in users (backend/api/sessions.py, start_session with X-User-ID)
\* ------------------------------------------------------------------------
\* the number of start requests made
MaxStarts == 4

SubscriptionTier == {"free", "pro", "family"}

\* TIER_LIMITS[tier].daily_problems; 0 stands for None, no limit
FREE_DAILY_PROBLEMS == 3

NoLimit == 0

daily_problems(tier) == IF tier = "free" THEN FREE_DAILY_PROBLEMS ELSE NoLimit

UserIds == {"user1", "user2"}

StartRequests == {1, 2}

NoRow == [tier |-> "none", status |-> "none"]

\* a request slot with no request in it; status_code is the answer to the
\* request that last ran in the slot
IdleRequest == [pc |-> "idle", user_id |-> "user1", status_code |-> 0, problems_used |-> 0]

\* user1 has no subscription row yet; user2 has a paid one that is active or
\* has lapsed
UsageInit ==
    /\ subscriptions \in
           {[u \in UserIds |-> IF u = "user1" THEN NoRow
                               ELSE [tier |-> "pro", status |-> st]] :
               st \in {"active", "unpaid"}}
    /\ usage_records = <<>>
    /\ sessions_started = [u \in UserIds |-> 0]
    /\ start_requests = [r \in StartRequests |-> IdleRequest]

\* get_subscription: the user's row, a new FREE and ACTIVE one if there is none
get_subscription(rows, user_id) ==
    IF rows[user_id] = NoRow THEN [tier |-> "free", status |-> "active"] ELSE rows[user_id]

\* get_effective_tier, for a subscription without current_period_end
get_effective_tier(sub) ==
    IF sub.status \in {"active", "trialing"} THEN sub.tier ELSE "free"

\* the position of the user's first usage record of today, 0 if there is none
first_record(records, user_id) ==
    IF \E i \in 1..Len(records) : records[i].user_id = user_id
    THEN CHOOSE i \in 1..Len(records) :
            /\ records[i].user_id = user_id
            /\ \A j \in 1..(i - 1) : records[j].user_id # user_id
    ELSE 0

\* get_daily_usage
get_daily_usage(records, user_id) ==
    IF first_record(records, user_id) = 0 THEN 0
    ELSE records[first_record(records, user_id)].problems_used

\* check_can_start_session(...).can_start
can_start(rows, records, user_id) ==
    LET limit == daily_problems(get_effective_tier(get_subscription(rows, user_id)))
    IN  limit = NoLimit \/ get_daily_usage(records, user_id) < limit

\* the requests made so far
StartsMade ==
    sessions_started["user1"] + sessions_started["user2"]
        + Cardinality({r \in StartRequests : start_requests[r].pc # "idle"})

\* start_session, lines 64-76: the entitlement check; at the limit the request
\* is answered 402 LIMIT_REACHED
CheckCanStart(r) ==
    /\ start_requests[r].pc = "idle"
    /\ StartsMade < MaxStarts
    /\ \E user_id \in UserIds :
          /\ subscriptions' = [subscriptions EXCEPT
                 ![user_id] = get_subscription(subscriptions, user_id)]
          /\ start_requests' = [start_requests EXCEPT ![r] =
                 IF can_start(subscriptions, usage_records, user_id)
                 THEN [pc |-> "create", user_id |-> user_id, status_code |-> 0,
                       problems_used |-> 0]
                 ELSE [pc |-> "idle", user_id |-> user_id, status_code |-> 402,
                       problems_used |-> 0]]
    /\ UNCHANGED <<usage_records, sessions_started>>

\* start_session, lines 78-144: the problem, session and first hint are
\* written and committed
CreateSession(r) ==
    /\ start_requests[r].pc = "create"
    /\ sessions_started' = [sessions_started EXCEPT ![start_requests[r].user_id] = @ + 1]
    /\ start_requests' = [start_requests EXCEPT ![r].pc = "increment"]
    /\ UNCHANGED <<subscriptions, usage_records>>

\* increment_usage, lines 78-86: the user's usage record of today is read
ReadUsage(r) ==
    /\ start_requests[r].pc = "increment"
    /\ start_requests' = [start_requests EXCEPT
           ![r].pc = IF first_record(usage_records, start_requests[r].user_id) = 0
                     THEN "add" ELSE "update",
           ![r].problems_used = get_daily_usage(usage_records, start_requests[r].user_id)]
    /\ UNCHANGED <<subscriptions, usage_records, sessions_started>>

\* increment_usage, lines 88-94: the record is written with one problem more,
\* or a first record is added, and the request is answered 201
WriteUsage(r) ==
    /\ start_requests[r].pc \in {"add", "update"}
    /\ usage_records' =
           IF start_requests[r].pc = "add"
           THEN Append(usage_records,
                       [user_id |-> start_requests[r].user_id, problems_used |-> 1])
           ELSE [usage_records EXCEPT
                    ![first_record(usage_records, start_requests[r].user_id)].problems_used =
                        start_requests[r].problems_used + 1]
    /\ start_requests' = [start_requests EXCEPT ![r].pc = "idle", ![r].status_code = 201]
    /\ UNCHANGED <<subscriptions, sessions_started>>

\* ------------------------------------------------------------------------
\* Learning report emails (backend/services/email_service.py,
\* send_learning_report with a database session; email_throttle_service.py;
\* email_preference_service.py; models/email_send_log.py)
\* ------------------------------------------------------------------------
\* the number of send_learning_report calls made
MaxSends == 6
\* the number of times the wall clock passes into the next hour
MaxHours == 1

\* EmailThrottleService.SESSION_REPORT_LIMIT
SESSION_REPORT_LIMIT == 5

\* EmailThrottleService.SESSION_REPORT_WINDOW, in hours
SESSION_REPORT_WINDOW == 24

EmailSendStatus == {"pending", "sent", "failed"}

RecipientEmail == "parent@example.com"

ReportSessionIds == {"s1"}

SendCalls == {1, 2}

\* EmailSendLog.generate_idempotency_key for a session report
generate_idempotency_key(email, session_id) ==
    <<"session_report", ":", email, ":", session_id>>

\* a caller that has made no call yet; result and sent tell how the caller's
\* last call ended and whether it gave a message to the provider, after_sent
\* whether the report was already recorded SENT when that call ended
IdleCall ==
    [pc |-> "idle", session_id |-> "s1", after_sent |-> FALSE, window_start |-> 0,
     throttle |-> 0, send_count |-> 0, log |-> 0, result |-> "none", sent |-> FALSE]

EmailInit ==
    /\ email_send_logs = <<>>
    /\ email_throttles = <<>>
    /\ session_reports_enabled = TRUE
    /\ hour = 0
    /\ outbox = [s \in ReportSessionIds |-> [given |-> 0, delivered |-> 0]]
    /\ send_calls = [c \in SendCalls |-> IdleCall]
    /\ sends_begun = 0

\* a log row with the key and status SENT exists (lines 250-257)
existing(logs, idempotency_key) ==
    \E i \in 1..Len(logs) :
        logs[i].idempotency_key = idempotency_key /\ logs[i].status = "sent"

\* unique=True on email_send_logs.idempotency_key
key_free(logs, idempotency_key) ==
    \A i \in 1..Len(logs) : logs[i].idempotency_key # idempotency_key

\* the position of the recipient's first throttle row of the window, 0 if none
first_throttle(throttles, window_start) ==
    IF \E i \in 1..Len(throttles) : throttles[i].window_start = window_start
    THEN CHOOSE i \in 1..Len(throttles) :
            /\ throttles[i].window_start = window_start
            /\ \A j \in 1..(i - 1) : throttles[j].window_start # window_start
    ELSE 0

\* the call of caller c ends with this result; sent says whether it gave a
\* message to the provider, send_count is the throttle count it read
Return(c, result, sent, send_count) ==
    send_calls' = [send_calls EXCEPT ![c] =
        [pc |-> "idle", session_id |-> send_calls[c].session_id,
         after_sent |-> existing(email_send_logs,
                           generate_idempotency_key(RecipientEmail, send_calls[c].session_id)),
         window_start |-> 0, throttle |-> 0, send_count |-> send_count, log |-> 0,
         result |-> result, sent |-> sent]]

\* lines 213-233: a call begins; with session reports disabled it returns True
CheckPreference(c) ==
    /\ send_calls[c].pc = "idle"
    /\ sends_begun < MaxSends
    /\ sends_begun' = sends_begun + 1
    /\ \E session_id \in ReportSessionIds :
          IF session_reports_enabled
          THEN send_calls' = [send_calls EXCEPT ![c] =
                   [IdleCall EXCEPT !.session_id = session_id, !.pc = "throttle"]]
          ELSE send_calls' = [send_calls EXCEPT ![c] =
                   [IdleCall EXCEPT
                       !.session_id = session_id,
                       !.result = "True",
                       !.after_sent = existing(email_send_logs,
                           generate_idempotency_key(RecipientEmail, session_id))]]
    /\ UNCHANGED <<email_send_logs, email_throttles, session_reports_enabled, hour, outbox>>

\* check_and_increment_throttle, lines 82-139: the throttle row of the hour is
\* read; at the limit HTTPException(429) is raised and passes through
\* send_learning_report (lines 236-243)
ReadThrottle(c) ==
    /\ send_calls[c].pc = "throttle"
    /\ LET i == first_throttle(email_throttles, hour)
       IN  IF i = 0
           THEN send_calls' = [send_calls EXCEPT
                    ![c].pc = "throttle_add", ![c].window_start = hour]
           ELSE IF email_throttles[i].send_count >= SESSION_REPORT_LIMIT
           THEN Return(c, "429", FALSE, email_throttles[i].send_count)
           ELSE send_calls' = [send_calls EXCEPT
                    ![c].pc = "throttle_update",
                    ![c].throttle = i,
                    ![c].send_count = email_throttles[i].send_count]
    /\ UNCHANGED <<email_send_logs, email_throttles, session_reports_enabled, hour,
                   outbox, sends_begun>>

\* check_and_increment_throttle, lines 96-106 and 141-144: a first row of the
\* window is added with count 1, or the row that was read is written with one
\* more than was read
WriteThrottle(c) ==
    /\ send_calls[c].pc \in {"throttle_add", "throttle_update"}
    /\ email_throttles' =
           IF send_calls[c].pc = "throttle_add"
           THEN Append(email_throttles,
                       [window_start |-> send_calls[c].window_start, send_count |-> 1])
           ELSE [email_throttles EXCEPT
                    ![send_calls[c].throttle].send_count = send_calls[c].send_count + 1]
    /\ send_calls' = [send_calls EXCEPT
           ![c].pc = "idempotency", ![c].window_start = 0, ![c].throttle = 0]
    /\ UNCHANGED <<email_send_logs, session_reports_enabled, hour, outbox,
                   sends_begun>>

\* lines 245-264: a SENT row with the key makes the call return True
CheckIdempotency(c) ==
    /\ send_calls[c].pc = "idempotency"
    /\ IF existing(email_send_logs,
                   generate_idempotency_key(RecipientEmail, send_calls[c].session_id))
       THEN Return(c, "True", FALSE, send_calls[c].send_count)
       ELSE send_calls' = [send_calls EXCEPT ![c].pc = "insert"]
    /\ UNCHANGED <<email_send_logs, email_throttles, session_reports_enabled, hour,
                   outbox, sends_begun>>

\* lines 266-276: the PENDING row is added and committed; a row with the same
\* key makes the commit raise IntegrityError
InsertPending(c) ==
    /\ send_calls[c].pc = "insert"
    /\ LET idempotency_key ==
               generate_idempotency_key(RecipientEmail, send_calls[c].session_id)
       IN  IF key_free(email_send_logs, idempotency_key)
           THEN /\ email_send_logs' = Append(email_send_logs,
                       [idempotency_key |-> idempotency_key, status |-> "pending"])
                /\ send_calls' = [send_calls EXCEPT
                       ![c].pc = "send", ![c].log = Len(email_send_logs) + 1]
           ELSE /\ Return(c, "IntegrityError", FALSE, send_calls[c].send_count)
                /\ UNCHANGED email_send_logs
    /\ UNCHANGED <<email_throttles, session_reports_enabled, hour, outbox, sends_begun>>

\* lines 279-337: the message is given to the provider, which delivers it or
\* fails; the row becomes SENT or FAILED and the call returns whether it is SENT
SendEmail(c) ==
    /\ send_calls[c].pc = "send"
    /\ \E success \in BOOLEAN :
          /\ outbox' = [outbox EXCEPT ![send_calls[c].session_id] =
                 [given |-> @.given + 1,
                  delivered |-> @.delivered + (IF success THEN 1 ELSE 0)]]
          /\ email_send_logs' = [email_send_logs EXCEPT
                 ![send_calls[c].log].status = IF success THEN "sent" ELSE "failed"]
          /\ Return(c, IF success THEN "True" ELSE "False", TRUE, send_calls[c].send_count)
    /\ UNCHANGED <<email_throttles, session_reports_enabled, hour, sends_begun>>

\* mark_session_reports_unsubscribed: the recipient disables session reports
Unsubscribe ==
    /\ session_reports_enabled
    /\ session_reports_enabled' = FALSE
    /\ UNCHANGED <<email_send_logs, email_throttles, hour, outbox, send_calls,
                   sends_begun>>

\* the wall clock passes into the next hour, where _get_window_start begins a
\* new window
NextHour ==
    /\ hour < MaxHours
    /\ hour' = hour + 1
    /\ UNCHANGED <<email_send_logs, email_throttles, session_reports_enabled, outbox,
                   send_calls, sends_begun>>

\* ------------------------------------------------------------------------
\* Initial state of the services
\* ------------------------------------------------------------------------
ServiceInit ==
    /\ LimiterInit
    /\ UsageInit
    /\ EmailInit

\* ------------------------------------------------------------------------
\* Session endpoints (backend/api/sessions.py)
\* ------------------------------------------------------------------------
\* api/sessions.py: the shortest stripped response the respond endpoint accepts.
sessions_MIN_RESPONSE_LENGTH == 10

\* a slip in the length check of respond_to_hint: only an empty response is
\* turned away
too_short_empty_only(response_text) == Len(response_text) < 1

\* respond_to_hint, line 255: len(response_text) < MIN_RESPONSE_LENGTH
too_short(response_text) == Len(response_text) < sessions_MIN_RESPONSE_LENGTH

\* a slip in the status check of respond_to_hint: only a Revealed session is
\* turned away
not_active_revealed_only(status) == status = "revealed"

\* respond_to_hint, line 247: hint_session.status != SessionStatus.ACTIVE
not_active(status) == status # "active"

\* a slip in the layer of the new hint: the new layer is used as it is
hint_layer_unsubstituted(new_layer) == new_layer

\* respond_to_hint, lines 317-319 and 326-328: the layer the new hint is
\* generated for and stored with
hint_layer_of(new_layer) == IF new_layer # "completed" THEN new_layer ELSE "step"

\* a slip in the status after a turn: the status is left as it was
status_kept(new_layer, status) == status

\* respond_to_hint, lines 302-303: the status after the turn
status_after(new_layer, status) == IF new_layer = "completed" THEN "completed" ELSE status

\* is_math_problem
is_math_problem(text) ==
    \/ \E i \in 1..Len(text) : text[i] \in {"+", "-", "u00d7", "u00f7", "*", "/", "="}
    \/ \E i \in 1..Len(text) : text[i] \in Digits
    \/ \E i \in 1..Len(text) : text[i] \in {"x", "y", "z", "X", "Y", "Z"}
    \/ \E w \in { <<"u89e3">>, <<"u6c42">>, <<"u8ba1", "u7b97">>, <<"u65b9", "u7a0b">>,
                  <<"u9762", "u79ef">>, <<"u5468", "u957f">> } : Contains(text, w)

\* POST /start without an X-User-ID header
start_session(request_problem_text, locale) ==
    LET problem_text == strip(request_problem_text)
        \* ProblemClassifier() and HintGenerator() are built without a collaborator
        problem_type == classify_by_rules(problem_text)
        session_id == Len(hint_sessions) + 1
        hint == generate(LLMAbsent, problem_type, "concept", 1, FALSE, locale)
    IN  IF problem_text = <<>>
        THEN /\ response' = ErrorResponse("start", 0, 400, "EMPTY_INPUT")
             /\ UNCHANGED <<problems, hint_sessions, hint_contents>>
        ELSE IF Len(problem_text) > 500
        THEN /\ response' = ErrorResponse("start", 0, 400, "TOO_LONG")
             /\ UNCHANGED <<problems, hint_sessions, hint_contents>>
        ELSE IF ~is_math_problem(problem_text)
        THEN /\ response' = ErrorResponse("start", 0, 400, "NOT_MATH")
             /\ UNCHANGED <<problems, hint_sessions, hint_contents>>
        ELSE /\ Len(hint_sessions) + 1 \in SessionIds
             /\ problems' = Append(problems,
                    [raw_text |-> problem_text, problem_type |-> problem_type])
             /\ hint_sessions' = Append(hint_sessions,
                    [problem_id |-> Len(problems) + 1, current_layer |-> "concept",
                     status |-> "active", confusion_count |-> 0,
                     used_full_solution |-> FALSE])
             /\ hint_contents' = Append(hint_contents,
                    [session_id |-> session_id, layer |-> "concept", sequence |-> 1,
                     content |-> hint.content, is_downgrade |-> FALSE])
             /\ response' = [NoResponse EXCEPT
                    !.op = "start", !.session_id = session_id, !.status_code = 201,
                    !.current_layer = "concept"]

Start ==
    /\ \E text \in ProblemTexts, locale \in Locales : start_session(text, locale)
    /\ UNCHANGED <<student_responses, full_solutions, KEYWORDS_BY_TYPE, call, ret, serviceVars>>

\* the newest hint of a session and layer: the query of respond_to_hint,
\* lines 305-311, as current_sequence
current_sequence_of(session_id, layer) ==
    LET rows == {i \in 1..Len(hint_contents) :
                    /\ hint_contents[i].session_id = session_id
                    /\ hint_contents[i].layer = layer}
    IN  IF rows = {} THEN 0
        ELSE LET top == CHOOSE i \in rows :
                            \A j \in rows : hint_contents[j].sequence <= hint_contents[i].sequence
             IN  hint_contents[top].sequence

\* GET /{session_id}, lines 200-203: the can_reveal_solution flag of the
\* session response
get_session_can_reveal(hint_session) ==
    hint_session.current_layer = "step" \/ hint_session.status = "completed"

\* POST /{session_id}/respond
respond_to_hint(session_id, request_response_text) ==
    IF session_id > Len(hint_sessions)
    THEN /\ response' = ErrorResponse("respond", session_id, 404, "SESSION_NOT_FOUND")
         /\ UNCHANGED <<hint_sessions, hint_contents, student_responses, KEYWORDS_BY_TYPE>>
    ELSE IF not_active(hint_sessions[session_id].status)
    THEN /\ response' = ErrorResponse("respond", session_id, 400, "SESSION_COMPLETED")
         /\ UNCHANGED <<hint_sessions, hint_contents, student_responses, KEYWORDS_BY_TYPE>>
    ELSE IF too_short(strip(request_response_text))
    THEN /\ response' = ErrorResponse("respond", session_id, 400, "RESPONSE_TOO_SHORT")
         /\ UNCHANGED <<hint_sessions, hint_contents, student_responses, KEYWORDS_BY_TYPE>>
    ELSE LET hint_session == hint_sessions[session_id]
             problem == problems[hint_session.problem_id]
             response_text == strip(request_response_text)
             eval_result == evaluate(response_text, problem.problem_type,
                                     hint_session.current_layer, KEYWORDS_BY_TYPE)
             transition == determine_transition(hint_session.current_layer,
                                                eval_result.understanding_level,
                                                hint_session.confusion_count)
             previous_layer == hint_session.current_layer
             confusion_count ==
                 IF transition.reset_confusion THEN 0
                 ELSE IF ~transition.should_advance THEN hint_session.confusion_count + 1
                 ELSE hint_session.confusion_count
             status == status_after(transition.new_layer, hint_session.status)
             current_sequence == current_sequence_of(session_id, previous_layer)
             hint_layer == hint_layer_of(transition.new_layer)
             new_hint == generate(LLMAbsent, problem.problem_type, hint_layer,
                                  get_next_sequence(current_sequence,
                                                    ~transition.should_advance),
                                  transition.is_downgrade, DefaultLocale)
         IN  /\ Len(student_responses) < MaxTurns
             /\ KEYWORDS_BY_TYPE' = eval_result.table
             /\ student_responses' = Append(student_responses,
                    [session_id |-> session_id, layer |-> hint_session.current_layer,
                     char_count |-> eval_result.char_count,
                     understanding_level |-> eval_result.understanding_level,
                     keywords_matched |-> eval_result.keywords_matched])
             /\ hint_sessions' = [hint_sessions EXCEPT ![session_id] =
                    [@ EXCEPT !.confusion_count = confusion_count,
                              !.current_layer = transition.new_layer,
                              !.status = status]]
             /\ hint_contents' = Append(hint_contents,
                    [session_id |-> session_id, layer |-> hint_layer,
                     sequence |-> new_hint.sequence, content |-> new_hint.content,
                     is_downgrade |-> transition.is_downgrade])
             /\ response' = [NoResponse EXCEPT
                    !.op = "respond", !.session_id = session_id, !.status_code = 200,
                    !.current_layer = transition.new_layer,
                    !.previous_layer = previous_layer,
                    !.understanding_level = eval_result.understanding_level,
                    !.confusion_count = confusion_count,
                    !.is_downgrade = transition.is_downgrade,
                    !.can_reveal_solution = can_reveal_solution(transition.new_layer, status),
                    !.status = status]

Respond ==
    /\ \E session_id \in SessionIds, text \in ResponseTexts :
          respond_to_hint(session_id, text)
    /\ UNCHANGED <<problems, full_solutions, call, ret, serviceVars>>

\* POST /{session_id}/reveal
reveal_solution(session_id) ==
    IF session_id > Len(hint_sessions)
    THEN /\ response' = ErrorResponse("reveal", session_id, 404, "SESSION_NOT_FOUND")
         /\ UNCHANGED <<hint_sessions, full_solutions>>
    ELSE IF ~can_reveal_solution(hint_sessions[session_id].current_layer,
                                 hint_sessions[session_id].status)
    THEN /\ response' = ErrorResponse("reveal", session_id, 400, "REVEAL_NOT_ALLOWED")
         /\ UNCHANGED <<hint_sessions, full_solutions>>
    ELSE LET problem_id == hint_sessions[session_id].problem_id
             \* SolutionGenerator() is built without a collaborator
             solution == solution_generate(LLMAbsent, problems[problem_id].problem_type)
         IN  /\ Len(full_solutions) < MaxReveals
             /\ full_solutions' = Append(full_solutions,
                    [problem_id |-> problem_id, steps |-> solution.steps,
                     final_answer |-> solution.final_answer,
                     explanation |-> solution.explanation])
             /\ hint_sessions' = [hint_sessions EXCEPT ![session_id] =
                    [@ EXCEPT !.status = "revealed", !.current_layer = "revealed",
                              !.used_full_solution = TRUE]]
             /\ response' = [NoResponse EXCEPT
                    !.op = "reveal", !.session_id = session_id, !.status_code = 200,
                    !.status = "revealed"]

Reveal ==
    /\ \E session_id \in SessionIds : reveal_solution(session_id)
    /\ UNCHANGED <<problems, hint_contents, student_responses, KEYWORDS_BY_TYPE, call, ret, serviceVars>>

\* a slip in allowed_layers: Strategy is let through
allowed_layers_with_strategy == {"strategy", "step", "completed"}

\* a slip in allowed_layers: every layer after Strategy is let through
allowed_layers_with_revealed == {"step", "completed", "revealed"}

\* allowed_layers of complete_session
allowed_layers == {"step", "completed"}

\* POST /{session_id}/complete without an email in the request
complete_session(session_id) ==
    IF session_id > Len(hint_sessions)
    THEN /\ response' = ErrorResponse("complete", session_id, 404, "SESSION_NOT_FOUND")
         /\ UNCHANGED hint_sessions
    ELSE IF hint_sessions[session_id].current_layer \notin allowed_layers
    THEN /\ response' = ErrorResponse("complete", session_id, 400, "COMPLETE_NOT_ALLOWED")
         /\ UNCHANGED hint_sessions
    ELSE /\ hint_sessions' = [hint_sessions EXCEPT ![session_id] =
                [@ EXCEPT !.status = "completed", !.current_layer = "completed"]]
         /\ response' = [NoResponse EXCEPT
                !.op = "complete", !.session_id = session_id, !.status_code = 200,
                !.status = "completed"]

Complete ==
    /\ \E session_id \in SessionIds : complete_session(session_id)
    /\ UNCHANGED <<problems, hint_contents, student_responses, full_solutions,
                   KEYWORDS_BY_TYPE, call, ret, serviceVars>>

\* ------------------------------------------------------------------------
\* Specification of the session endpoints
\* ------------------------------------------------------------------------
NoCall ==
    [op |-> "none", llm |-> LLMAbsent, problem_type |-> "unknown", layer |-> "concept",
     locale |-> DefaultLocale, known_answer |-> <<>>]

NoRet ==
    [done |-> FALSE,
     processed |-> PostProcessResult(<<>>, FALSE, "none"),
     hint |-> [content |-> <<>>, layer |-> "concept", sequence |-> 0, is_downgrade |-> FALSE],
     solution |-> [steps |-> <<>>, final_answer |-> <<>>, explanation |-> <<>>]]

\* the database is empty and the evaluator's keyword table is as loaded
DbInit ==
    /\ problems = <<>>
    /\ hint_sessions = <<>>
    /\ hint_contents = <<>>
    /\ student_responses = <<>>
    /\ full_solutions = <<>>
    /\ KEYWORDS_BY_TYPE = KEYWORDS_BY_TYPE_INITIAL
    /\ response = NoResponse

Init ==
    /\ DbInit
    /\ ServiceInit
    /\ call = NoCall
    /\ ret = NoRet

Next ==
    \/ Start
    \/ Respond
    \/ Reveal
    \/ Complete

Spec == Init /\ [][Next]_vars

\* ------------------------------------------------------------------------
\* Specification of the generators as functions of their inputs
\* ------------------------------------------------------------------------
\* characters of the enumerated completions: a variable, "=", a digit, a blank
\* and the negative word 错
CandAlphabet == {"x", "=", "3", " ", "u9519"}

\* completions that exercise the other answer patterns and the sign:
\* "错x=3", "等于 5", "答案是-3", "结果：7", "x = -12 wrong"
SampleCandidates ==
    { <<"u9519", "x", "=", "3">>,
      <<"u7b49", "u4e8e", " ", "5">>,
      <<"u7b54", "u6848", "u662f", "-", "3">>,
      <<"u7ed3", "u679c", "uff1a", "7">>,
      <<"x", " ", "=", " ", "-", "1", "2", " ", "w", "r", "o", "n", "g">> }

Candidates ==
    UNION {[1..n -> CandAlphabet] : n \in 0..MaxCandLen} \cup SampleCandidates

\* the correct answer of the problem a hint is generated for
KnownAnswers == {<<"3">>, <<"3", "3">>}

\* completions of the solution prompt:
\*   "步骤1: a -> b\n最终答案: 3\n解释: c", "最终答案: 3", "步骤1: a -> b\n最终答案:",
\*   "abc", "步骤1: a -> b -> c\n最终答案: 3"
SolutionCandidates ==
    { <<"u6b65", "u9aa4", "1", ":", " ", "a", " ", "-", ">", " ", "b", "\n", "u6700",
        "u7ec8", "u7b54", "u6848", ":", " ", "3", "\n", "u89e3", "u91ca", ":", " ", "c">>,
      <<"u6700", "u7ec8", "u7b54", "u6848", ":", " ", "3">>,
      <<"u6b65", "u9aa4", "1", ":", " ", "a", " ", "-", ">", " ", "b", "\n", "u6700",
        "u7ec8", "u7b54", "u6848", ":">>,
      <<"a", "b", "c">>,
      <<"u6b65", "u9aa4", "1", ":", " ", "a", " ", "-", ">", " ", "b", " ", "-", ">",
        " ", "c", "\n", "u6700", "u7ec8", "u7b54", "u6848", ":", " ", "3">> }

HintCalls ==
    [op : {"hint"},
     llm : {LLMAbsent, LLMRaises} \cup {LLMReturns(c) : c \in Candidates},
     problem_type : ProblemType, layer : HintLayer, locale : Locales,
     known_answer : KnownAnswers]

SolutionCalls ==
    [op : {"solution"},
     llm : {LLMAbsent, LLMRaises} \cup {LLMReturns(c) : c \in SolutionCandidates},
     problem_type : ProblemType, layer : {"concept"}, locale : {DefaultLocale},
     known_answer : {<<>>}]

\* calls of the post-processor on a completion, with and without the
\* problem's answer
ProcessCalls ==
    [op : {"process"},
     llm : {LLMReturns(c) : c \in Candidates},
     problem_type : {"unknown"}, layer : {"concept"}, locale : {DefaultLocale},
     known_answer : KnownAnswers \cup {NoAnswer}]

InitGen ==
    /\ DbInit
    /\ ServiceInit
    /\ call \in HintCalls \cup SolutionCalls \cup ProcessCalls
    /\ ret = NoRet

\* HintGenerator(llm).generate(problem_text, problem_type, layer, locale=locale)
HintGenerate ==
    /\ call.op = "hint"
    /\ ~ret.done
    /\ ret' = [ret EXCEPT
           !.done = TRUE,
           !.processed = generate_processed(call.llm, call.problem_type, call.layer,
                                            call.locale),
           !.hint = generate(call.llm, call.problem_type, call.layer, 1, FALSE,
                             call.locale)]
    /\ UNCHANGED <<dbVars, call, serviceVars>>

\* SolutionGenerator(llm).generate(problem_text, problem_type)
SolutionGenerate ==
    /\ call.op = "solution"
    /\ ~ret.done
    /\ ret' = [ret EXCEPT
           !.done = TRUE,
           !.solution = solution_generate(call.llm, call.problem_type)]
    /\ UNCHANGED <<dbVars, call, serviceVars>>

\* HintPostProcessor().process(hint_content, problem_answer)
Process ==
    /\ call.op = "process"
    /\ ~ret.done
    /\ ret' = [ret EXCEPT
           !.done = TRUE,
           !.processed = process(call.llm.text, call.known_answer)]
    /\ UNCHANGED <<dbVars, call, serviceVars>>

NextGen ==
    \/ HintGenerate
    \/ SolutionGenerate
    \/ Process

SpecGen == InitGen /\ [][NextGen]_vars


\* ------------------------------------------------------------------------
\* Specification of the classifier as a function of its inputs
\* ------------------------------------------------------------------------
MaxTextLen == 3

\* characters of the enumerated problem texts: the two variables in either
\* case, a list separator, "=", and the characters of a square
ClassifyAlphabet == {"x", "X", "y", ",", "=", "2", "^"}

\* problem texts that exercise the remaining rules:
\*   "解方程 x", "求解 x+1", "x² = 4", "x，y", "hello", "x^2+y=1,x=y"
SampleProblemTexts ==
    { <<"u89e3", "u65b9", "u7a0b", " ", "x">>,
      <<"u6c42", "u89e3", " ", "x", "+", "1">>,
      <<"x", "u00b2", " ", "=", " ", "4">>,
      <<"x", "uff0c", "y">>,
      <<"h", "e", "l", "l", "o">>,
      <<"x", "^", "2", "+", "y", "=", "1", ",", "x", "=", "y">> }

ClassifyTexts ==
    UNION {[1..n -> ClassifyAlphabet] : n \in 0..MaxTextLen} \cup SampleProblemTexts

\* answers of the collaborator's classify():
\*   "LINEAR_EQUATION_1VAR", " Quadratic_Equation\n", "arithmetic", "Unknown",
\*   "algebra", ""
ClassifyAnswers ==
    { <<"L", "I", "N", "E", "A", "R", "_", "E", "Q", "U", "A", "T", "I", "O", "N", "_",
        "1", "V", "A", "R">>,
      <<" ", "Q", "u", "a", "d", "r", "a", "t", "i", "c", "_", "E", "q", "u", "a", "t",
        "i", "o", "n", "\n">>,
      <<"a", "r", "i", "t", "h", "m", "e", "t", "i", "c">>,
      <<"U", "n", "k", "n", "o", "w", "n">>,
      <<"a", "l", "g", "e", "b", "r", "a">>,
      <<>> }

ClassifyCalls ==
    [op : {"classify"},
     llm : {LLMAbsent, LLMRaises} \cup {LLMReturns(a) : a \in ClassifyAnswers},
     problem_text : ClassifyTexts]

InitClassify ==
    /\ DbInit
    /\ ServiceInit
    /\ call \in ClassifyCalls
    /\ ret = [done |-> FALSE, problem_type |-> "unknown"]

\* ProblemClassifier(llm).classify(problem_text)
Classify ==
    /\ call.op = "classify"
    /\ ~ret.done
    /\ ret' = [done |-> TRUE, problem_type |-> classify(call.llm, call.problem_text)]
    /\ UNCHANGED <<dbVars, call, serviceVars>>

NextClassify == Classify

SpecClassify == InitClassify /\ [][NextClassify]_vars

\* ------------------------------------------------------------------------
\* Specification of the evaluator: a sequence of evaluate calls on one process,
\* which share the class attribute KEYWORDS_BY_TYPE
\* ------------------------------------------------------------------------
MaxEvals == 3

\* "不懂": an explicit confusion phrase, 2 characters
ShortExplicit ==
    <<"u4e0d", "u61c2">>

\* "我不懂这个方法怎么做才好": an explicit confusion phrase and the keyword 方法
ExplicitWithKeyword ==
    <<"u6211", "u4e0d", "u61c2", "u8fd9", "u4e2a", "u65b9", "u6cd5", "u600e", "u4e48",
      "u505a", "u624d", "u597d">>

\* " x = 3 ": the keyword x, 5 characters when stripped
ShortWithKeyword ==
    <<" ", "x", " ", "=", " ", "3", " ">>

\* "I will isolate the variable by moving terms"
IsolateSentence ==
    <<"I", " ", "w", "i", "l", "l", " ", "i", "s", "o", "l", "a", "t", "e", " ", "t",
      "h", "e", " ", "v", "a", "r", "i", "a", "b", "l", "e", " ", "b", "y", " ", "m",
      "o", "v", "i", "n", "g", " ", "t", "e", "r", "m", "s">>

\* "Move X to the other side": the keyword x in upper case only
UpperCaseX ==
    <<"M", "o", "v", "e", " ", "X", " ", "t", "o", " ", "t", "h", "e", " ", "o", "t",
      "h", "e", "r", " ", "s", "i", "d", "e">>

\* "我用这个方法来做题目吧": the keyword 方法 of the Unknown list, 11 characters
UnknownListKeyword ==
    <<"u6211", "u7528", "u8fd9", "u4e2a", "u65b9", "u6cd5", "u6765", "u505a", "u9898",
      "u76ee", "u5427">>

\* "123456789": 9 characters, no keyword
NineDigits ==
    <<"1", "2", "3", "4", "5", "6", "7", "8", "9">>

\* "x234567890": the keyword x, exactly 10 characters
TenWithKeyword ==
    <<"x", "2", "3", "4", "5", "6", "7", "8", "9", "0">>

EvalTexts ==
    {ShortExplicit, ExplicitWithKeyword, ShortWithKeyword, IsolateSentence,
     UpperCaseX, UnknownListKeyword, NineDigits, TenWithKeyword}

\* layer is an argument evaluate does not read
EvalLayers == {"concept", "step"}

InitEval ==
    /\ DbInit
    /\ ServiceInit
    /\ call = [op |-> "evaluate", n |-> 0, response_text |-> <<>>,
               problem_type |-> "unknown", layer |-> "concept"]
    /\ ret = [done |-> FALSE, understanding_level |-> "confused", char_count |-> 0,
              keywords_matched |-> {}]

\* UnderstandingEvaluator().evaluate(response_text, problem_type, layer)
Evaluate ==
    /\ call.op = "evaluate"
    /\ call.n < MaxEvals
    /\ \E response_text \in EvalTexts, problem_type \in ProblemType, layer \in EvalLayers :
          LET result == evaluate(response_text, problem_type, layer, KEYWORDS_BY_TYPE)
          IN  /\ call' = [op |-> "evaluate", n |-> call.n + 1,
                          response_text |-> response_text,
                          problem_type |-> problem_type, layer |-> layer]
              /\ ret' = [done |-> TRUE,
                         understanding_level |-> result.understanding_level,
                         char_count |-> result.char_count,
                         keywords_matched |-> result.keywords_matched]
              /\ KEYWORDS_BY_TYPE' = result.table
    /\ UNCHANGED <<problems, hint_sessions, hint_contents, student_responses,
                   full_solutions, response, serviceVars>>

NextEval == Evaluate

SpecEval == InitEval /\ [][NextEval]_vars
\* ------------------------------------------------------------------------
\* Properties of the session endpoints (under Spec)
\* ------------------------------------------------------------------------
\* a session has been started
Started == Len(hint_sessions) >= 1

\* the step is a respond turn: respond_to_hint accepted the response and
\* recorded it
RespondTurn == Len(student_responses') = Len(student_responses) + 1

\* the response recorded by the respond turn
TurnRow == student_responses'[Len(student_responses')]

ConfusedLevels == {"confused", "explicit_confused"}

\* C1: on a respond turn the current layer stays, or moves Concept->Strategy,
\* Strategy->Step or Step->Completed, and it moves only when the verdict of
\* the turn is Understood: no layer is skipped, none is gone back to.
C1_LayerOrderPreserved ==
    [][RespondTurn =>
        LET old == hint_sessions[TurnRow.session_id].current_layer
            new == hint_sessions'[TurnRow.session_id].current_layer
        IN  \/ new = old
            \/ /\ TurnRow.understanding_level = "understood"
               /\ <<old, new>> \in {<<"concept", "strategy">>, <<"strategy", "step">>,
                                    <<"step", "completed">>}]_vars

\* a respond turn has moved the session from Step to Completed
C1_Witness ==
    /\ response.op = "respond"
    /\ response.understanding_level = "understood"
    /\ response.previous_layer = "step"
    /\ response.current_layer = "completed"

\* C2: counted from confusion count 0, the first and the second of three
\* consecutive Confused / ExplicitlyConfused turns are no downgrade, and the
\* third is one, leaves the layer as it is and the count at 3.
C2_DowngradeOnThird ==
    [][(RespondTurn /\ TurnRow.understanding_level \in ConfusedLevels) =>
        LET n == Len(student_responses)
            old == hint_sessions[TurnRow.session_id]
            new == hint_sessions'[TurnRow.session_id]
            confusedBefore(k) ==
                /\ n >= k
                /\ \A j \in (n - k + 1)..n :
                      student_responses[j].understanding_level \in ConfusedLevels
        IN  /\ old.confusion_count = 0 =>
                 /\ ~response'.is_downgrade
                 /\ new.confusion_count = 1
            /\ (old.confusion_count = 1 /\ confusedBefore(1)) =>
                 /\ ~response'.is_downgrade
                 /\ new.confusion_count = 2
            /\ (old.confusion_count = 2 /\ confusedBefore(2)) =>
                 /\ response'.is_downgrade
                 /\ hint_contents'[Len(hint_contents')].is_downgrade
                 /\ new.current_layer = old.current_layer
                 /\ new.confusion_count = 3
                 /\ response'.confusion_count = 3]_vars

\* the third confused turn in a row has been answered with a downgrade
C2_Witness ==
    /\ response.op = "respond"
    /\ response.is_downgrade
    /\ response.confusion_count = 3
    /\ Len(student_responses) >= 3
    /\ \A j \in (Len(student_responses) - 2)..Len(student_responses) :
          student_responses[j].understanding_level \in ConfusedLevels

\* C3: the confusion count changes on respond turns only; a turn whose
\* transition advances or is marked reset_confusion (the Step->Completed turn
\* included) leaves it at 0, every other turn raises it by exactly 1.
C3_ConfusionCount ==
    [][Started =>
        LET old == hint_sessions[1]
            new == hint_sessions'[1]
            transition == determine_transition(old.current_layer,
                                               TurnRow.understanding_level,
                                               old.confusion_count)
        IN  IF RespondTurn
            THEN IF transition.should_advance \/ transition.reset_confusion
                    \/ new.current_layer # old.current_layer
                 THEN new.confusion_count = 0
                 ELSE new.confusion_count = old.confusion_count + 1
            ELSE new.confusion_count = old.confusion_count]_vars

\* the turn that completed the session has reset a count raised at Step
C3_Witness ==
    /\ response.op = "respond"
    /\ response.current_layer = "completed"
    /\ response.confusion_count = 0
    /\ hint_sessions[1].confusion_count = 0
    /\ \E k \in 1..Len(student_responses) :
          /\ student_responses[k].layer = "step"
          /\ student_responses[k].understanding_level \in ConfusedLevels

\* C4: on the respond turn that follows a turn served with a downgrade hint,
\* the confusion count is reset to 0, whatever the verdict.
C4_ResetAfterDowngrade ==
    [][(RespondTurn /\ hint_contents[Len(hint_contents)].is_downgrade) =>
        hint_sessions'[TurnRow.session_id].confusion_count = 0]_vars

\* C5: a reveal request succeeds only at layer Step or with status Completed
\* or Revealed; on an Active session at Concept or Strategy it is answered
\* REVEAL_NOT_ALLOWED, and neither a solution nor a change of the session
\* comes of it.
C5_RevealGate ==
    [][(Started /\ response'.op = "reveal") =>
        LET old == hint_sessions[response'.session_id]
        IN  /\ response'.status_code = 200 =>
                 \/ old.current_layer = "step"
                 \/ old.status \in {"completed", "revealed"}
            /\ (old.status = "active" /\ old.current_layer \in {"concept", "strategy"}) =>
                 /\ response'.status_code = 400
                 /\ response'.error = "REVEAL_NOT_ALLOWED"
                 /\ full_solutions' = full_solutions
                 /\ hint_sessions' = hint_sessions]_vars

\* a reveal request has been rejected at Strategy
C5_Witness ==
    /\ response.op = "reveal"
    /\ response.error = "REVEAL_NOT_ALLOWED"
    /\ Started
    /\ hint_sessions[1].current_layer = "strategy"
    /\ full_solutions = <<>>

\* C6: a complete request succeeds only at layer Step or Completed; at any
\* other layer it is answered COMPLETE_NOT_ALLOWED and the session's layer and
\* status stay as they were.
C6_CompleteGate ==
    [][(Started /\ response'.op = "complete") =>
        LET old == hint_sessions[response'.session_id]
            new == hint_sessions'[response'.session_id]
        IN  /\ response'.status_code = 200 => old.current_layer \in {"step", "completed"}
            /\ old.current_layer \notin {"step", "completed"} =>
                 /\ response'.status_code = 400
                 /\ response'.error = "COMPLETE_NOT_ALLOWED"
                 /\ new.current_layer = old.current_layer
                 /\ new.status = old.status]_vars

\* a complete request has been rejected on a revealed session
C6_Witness ==
    /\ response.op = "complete"
    /\ response.error = "COMPLETE_NOT_ALLOWED"
    /\ Started
    /\ hint_sessions[1].current_layer = "revealed"
    /\ hint_sessions[1].status = "revealed"

\* C7, as claimed: once the layer is Completed or Revealed, no request changes
\* the layer or the status.
C7_TerminalAbsorbing ==
    [][(Started /\ hint_sessions[1].current_layer \in {"completed", "revealed"}) =>
        /\ hint_sessions'[1].current_layer = hint_sessions[1].current_layer
        /\ hint_sessions'[1].status = hint_sessions[1].status]_vars

\* C7, amended: Revealed is absorbing; a Completed session is left as it is by
\* respond and complete requests, and the one change a later request makes to
\* it is a reveal request taking layer and status to Revealed.
C7_RevealedAbsorbing ==
    [][(Started /\ hint_sessions[1].current_layer \in {"completed", "revealed"}) =>
        \/ /\ hint_sessions'[1].current_layer = hint_sessions[1].current_layer
           /\ hint_sessions'[1].status = hint_sessions[1].status
        \/ /\ hint_sessions[1].current_layer = "completed"
           /\ response'.op = "reveal"
           /\ hint_sessions'[1].current_layer = "revealed"
           /\ hint_sessions'[1].status = "revealed"]_vars

\* a session completed by a respond turn has then been revealed, and a later
\* complete request has been turned away
C7_Witness ==
    /\ Started
    /\ hint_sessions[1].current_layer = "revealed"
    /\ hint_sessions[1].status = "revealed"
    /\ Len(student_responses) >= 1
    /\ student_responses[Len(student_responses)].layer = "step"
    /\ student_responses[Len(student_responses)].understanding_level = "understood"
    /\ response.op = "complete"
    /\ response.error = "COMPLETE_NOT_ALLOWED"

\* ------------------------------------------------------------------------
\* Properties of the generators (under SpecGen)
\* ------------------------------------------------------------------------
\* the content matches one of ANSWER_PATTERNS
MatchesAnswerPattern(content) ==
    \E p \in 1..Len(ANSWER_PATTERNS) : re_search(ANSWER_PATTERNS[p], content)

\* C8: the content HintGenerator.generate returns matches no answer-leak
\* pattern and does not contain the problem's known correct answer.
C8_NoLeak ==
    (ret.done /\ call.op = "hint") =>
        /\ ~MatchesAnswerPattern(ret.hint.content)
        /\ ~Contains(ret.hint.content, call.known_answer)

\* C9: when the post-processor flags the candidate with answer_leak or
\* direct_answer_leak, generate returns the static fallback of the problem
\* type, layer and locale, and not the redacted candidate.
C9_LeakForcesFallback ==
    (/\ ret.done
     /\ call.op = "hint"
     /\ ret.processed.was_filtered
     /\ ret.processed.filter_reason \in {"answer_leak", "direct_answer_leak"}) =>
        /\ ret.hint.content = get_fallback(call.problem_type, call.layer, call.locale)
        /\ ret.hint.content # ret.processed.content
        /\ ~Contains(ret.hint.content, Ellipsis)

\* a completion that leaks an answer has been replaced by the fallback
C9_Witness ==
    /\ ret.done
    /\ call.op = "hint"
    /\ call.llm = LLMReturns(<<"x", "=", "3">>)
    /\ ret.processed.filter_reason = "answer_leak"
    /\ ret.processed.content = Ellipsis
    /\ ret.hint.content = get_fallback(call.problem_type, call.layer, call.locale)

\* C10: without a collaborator, HintGenerator.generate returns non-empty
\* content for every problem type, layer and locale, SolutionGenerator.generate
\* returns at least one step and a non-empty final answer for every problem
\* type, and neither raises.
C10_FallbackTotality ==
    (ret.done /\ call.llm = LLMAbsent) =>
        /\ call.op = "hint" =>
             /\ ret.hint.content # Raised
             /\ strip(ret.hint.content) # <<>>
        /\ call.op = "solution" =>
             /\ ret.solution # SolutionRaised
             /\ Len(ret.solution.steps) >= 1
             /\ strip(ret.solution.final_answer) # <<>>

\* a hint has been generated without a collaborator for a type and a layer
\* that have no cell of their own in the fallback bank
C10_Witness ==
    /\ ret.done
    /\ call.op = "hint"
    /\ call.llm = LLMAbsent
    /\ call.problem_type = "arithmetic"
    /\ call.layer = "revealed"
    /\ ret.hint.content = HINT_EN_CONCEPT_ARITHMETIC

\* ------------------------------------------------------------------------
\* Further properties of the generators (under SpecGen)
\* ------------------------------------------------------------------------
\* the completion of a solution call parses to no step or to no final answer
ParseIncomplete ==
    /\ call.op = "solution"
    /\ call.llm.kind = "returns"
    /\ \/ parsed_response(call.llm.text).steps = <<>>
       \/ parsed_response(call.llm.text).final_answer = <<>>

\* C11: when the completion parses to zero steps or to an empty final answer,
\* SolutionGenerator.generate returns the static fallback solution of the
\* problem type it was called with, the one it returns without a collaborator.
C11_ParseFailureFallback ==
    (ret.done /\ ParseIncomplete) =>
        ret.solution = solution_get_fallback(call.problem_type)

\* ------------------------------------------------------------------------
\* Properties of the classifier (under SpecClassify)
\* ------------------------------------------------------------------------
\* what the rules look for in the text of the call, read without regard to case
HasSeparator ==
    \E i \in 1..Len(call.problem_text) : call.problem_text[i] \in {",", "uff0c"}

HasLetter(c) ==
    \E i \in 1..Len(call.problem_text) : lower(<<call.problem_text[i]>>) = <<c>>

HasSquare ==
    \E i \in 1..Len(call.problem_text) - 1 :
        /\ lower(<<call.problem_text[i]>>) = <<"x">>
        /\ \/ call.problem_text[i + 1] \in {"u00b2", "2"}
           \/ /\ i + 2 <= Len(call.problem_text)
              /\ call.problem_text[i + 1] = "^"
              /\ call.problem_text[i + 2] = "2"

HasSolveVerb ==
    \/ Contains(call.problem_text, <<"u89e3", "u65b9", "u7a0b">>)
    \/ Contains(call.problem_text, <<"u6c42", "u89e3">>)

\* C12: the rules are tried in a fixed order and the first that matches
\* decides: a separator with both x and y gives the two-variable type, also
\* next to a square or "="; failing that a square gives the quadratic type,
\* also next to "="; failing that x with "=" or with a solving verb gives the
\* one-variable type; anything else is Unknown.
C12_RuleOrder ==
    (ret.done /\ call.op = "classify" /\ call.llm = LLMAbsent) =>
        ret.problem_type =
            IF HasSeparator /\ HasLetter("x") /\ HasLetter("y")
            THEN "linear_equation_2var"
            ELSE IF HasSquare THEN "quadratic_equation"
            ELSE IF HasLetter("x") /\ (HasLetter("=") \/ HasSolveVerb)
            THEN "linear_equation_1var"
            ELSE "unknown"

\* a text with a square and "=" that the two-variable rule decides
C12_Witness ==
    /\ ret.done
    /\ call.op = "classify"
    /\ call.llm = LLMAbsent
    /\ HasSeparator /\ HasLetter("y") /\ HasSquare /\ HasLetter("=")
    /\ ret.problem_type = "linear_equation_2var"

\* the collaborator of the call answered with the value of a type other than
\* Unknown, in any case and with blanks around it
AnswerParses ==
    /\ call.llm.kind = "returns"
    /\ \E t \in ProblemType \ {"unknown"} :
          strip(lower(call.llm.text)) = ProblemTypeValue[t]

\* C13: classify returns a member of the enumeration and never raises; the
\* collaborator's answer is the result exactly when it parses to a type other
\* than Unknown, and in every other case (collaborator absent, raising,
\* unparseable or "unknown") the result is the rule-based classification.
C13_ClassifyTotal ==
    (ret.done /\ call.op = "classify") =>
        /\ ret.problem_type \in ProblemType
        /\ AnswerParses => ProblemTypeValue[ret.problem_type] = strip(lower(call.llm.text))
        /\ ~AnswerParses => ret.problem_type = classify_by_rules(call.problem_text)

\* the collaborator said "Unknown" and the rules decided for the quadratic type
C13_Witness ==
    /\ ret.done
    /\ call.op = "classify"
    /\ call.llm = LLMReturns(<<"U", "n", "k", "n", "o", "w", "n">>)
    /\ call.problem_text = <<"x", "^", "2">>
    /\ ret.problem_type = "quadratic_equation"

\* ------------------------------------------------------------------------
\* Properties of the evaluator (under SpecEval)
\* ------------------------------------------------------------------------
\* the response of the last call holds one of the explicit confusion phrases
HasConfusionPhrase ==
    \E p \in 1..Len(EXPLICIT_CONFUSION_PHRASES) :
        Contains(lower(call.response_text), EXPLICIT_CONFUSION_PHRASES[p])

\* the keywords of a type's list as the module defines it
InitialKeywords(problem_type) ==
    {KEYWORDS_BY_TYPE_INITIAL[problem_type][i] :
        i \in 1..Len(KEYWORDS_BY_TYPE_INITIAL[problem_type])}

\* the response of the last call holds, in any case, a keyword of the list of
\* its problem type or of the Unknown list
HasKeyword ==
    \E k \in InitialKeywords(call.problem_type) \cup InitialKeywords("unknown") :
        Contains(lower(call.response_text), lower(k))

\* C14: a response with an explicit confusion phrase is ExplicitlyConfused
\* with no keywords, whatever its length and whatever keywords it holds.
C14_ExplicitConfusionFirst ==
    (ret.done /\ call.op = "evaluate" /\ HasConfusionPhrase) =>
        /\ ret.understanding_level = "explicit_confused"
        /\ ret.keywords_matched = {}

\* a response of 2 characters has been found explicitly confused
C14_Witness ==
    /\ ret.done
    /\ call.op = "evaluate"
    /\ call.response_text = ShortExplicit
    /\ ret.char_count = 2
    /\ ret.understanding_level = "explicit_confused"

\* C15: a response without a confusion phrase is Confused with no keywords
\* when its stripped length is below 10, keyword or not; from 10 characters on
\* it is Understood exactly when a keyword of its type's list or of the
\* Unknown list occurs in it, in any case, and Confused otherwise.
C15_LengthThenKeywords ==
    (ret.done /\ call.op = "evaluate" /\ ~HasConfusionPhrase) =>
        /\ ret.char_count = Len(strip(call.response_text))
        /\ ret.char_count < 10 =>
             /\ ret.understanding_level = "confused"
             /\ ret.keywords_matched = {}
        /\ ret.char_count >= 10 =>
             /\ ret.understanding_level = (IF HasKeyword THEN "understood" ELSE "confused")
             /\ (ret.keywords_matched # {}) = HasKeyword

\* a response whose only keyword is in the Unknown list has been understood
\* for the arithmetic type
C15_Witness ==
    /\ ret.done
    /\ call.op = "evaluate"
    /\ call.response_text = UnknownListKeyword
    /\ call.problem_type = "arithmetic"
    /\ ret.understanding_level = "understood"
    /\ ret.char_count = 11

\* C16: evaluate("I will isolate the variable by moving terms",
\* LINEAR_EQUATION_1VAR, CONCEPT) is Understood with matched keywords.
C16_IsolateSentenceUnderstood ==
    (/\ ret.done
     /\ call.op = "evaluate"
     /\ call.response_text = IsolateSentence
     /\ call.problem_type = "linear_equation_1var"
     /\ call.layer = "concept") =>
        /\ ret.understanding_level = "understood"
        /\ ret.keywords_matched # {}

\* C17: evaluate changes no shared table: after any sequence of calls every
\* keyword list is the one the module defines.
C17_KeywordTableUnchanged ==
    call.op = "evaluate" => KEYWORDS_BY_TYPE = KEYWORDS_BY_TYPE_INITIAL

\* ------------------------------------------------------------------------
\* Specification of the rate limiter under concurrent is_allowed calls
\* ------------------------------------------------------------------------
sessionVars ==
    <<problems, hint_sessions, hint_contents, student_responses, full_solutions,
      KEYWORDS_BY_TYPE, response, call, ret>>

InitLimiter ==
    /\ DbInit
    /\ call = NoCall
    /\ ret = NoRet
    /\ ServiceInit

NextLimiter ==
    \/ \E t \in LimiterThreads : Acquire(t) /\ UNCHANGED <<sessionVars, usageVars, emailVars>>
    \/ \E t \in LimiterThreads : Prune(t) /\ UNCHANGED <<sessionVars, usageVars, emailVars>>
    \/ \E t \in LimiterThreads : Check(t) /\ UNCHANGED <<sessionVars, usageVars, emailVars>>
    \/ \E t \in LimiterThreads : AppendRequest(t) /\ UNCHANGED <<sessionVars, usageVars, emailVars>>
    \/ Tick /\ UNCHANGED <<sessionVars, usageVars, emailVars>>

SpecLimiter == InitLimiter /\ [][NextLimiter]_vars

\* ------------------------------------------------------------------------
\* Properties of the rate limiter (under SpecLimiter)
\* ------------------------------------------------------------------------
\* the returned calls of a client, as positions of limiter_log
CallsOf(client_id) ==
    {i \in 1..Len(limiter_log) : limiter_log[i].client_id = client_id}

AllowedOf(client_id) == {i \in CallsOf(client_id) : limiter_log[i].allowed}

\* C18: for each client, the calls answered True with timestamps in one window
\* of window_seconds are never more than max_requests; when more calls than
\* that arrive within one window, exactly max_requests of them are answered
\* True; and a call is refused only on account of calls of its own client.
C18_LimitPerWindow ==
    \A c \in ClientIds :
        /\ \A a \in 0..MaxClock :
              Cardinality({i \in AllowedOf(c) :
                              /\ a <= limiter_log[i].now
                              /\ limiter_log[i].now <= a + window_seconds})
                 <= max_requests
        /\ (/\ Cardinality(CallsOf(c)) > max_requests
            /\ \A i, j \in CallsOf(c) :
                  limiter_log[i].now - limiter_log[j].now <= window_seconds)
              => Cardinality(AllowedOf(c)) = max_requests
        /\ \A i \in CallsOf(c) \ AllowedOf(c) :
              Cardinality({j \in AllowedOf(c) :
                              /\ j < i
                              /\ limiter_log[j].now >= limiter_log[i].now - window_seconds})
                 >= max_requests

\* three calls of one client have returned within one window, the third was
\* refused, and a call of the other client made meanwhile was let through
C18_Witness ==
    /\ Cardinality(CallsOf("client1")) = 3
    /\ Cardinality(AllowedOf("client1")) = 2
    /\ Cardinality(AllowedOf("client2")) = 1
    /\ Len(limiter_log) = 4
    /\ ~limiter_log[4].allowed
    /\ \A i \in 1..4 : limiter_log[i].now = 0

\* ------------------------------------------------------------------------
\* Specification of start requests of signed-in users that may overlap
\* ------------------------------------------------------------------------
InitUsage ==
    /\ DbInit
    /\ call = NoCall
    /\ ret = NoRet
    /\ ServiceInit

NextUsage ==
    \/ \E r \in StartRequests : CheckCanStart(r) /\ UNCHANGED <<sessionVars, limiterVars, emailVars>>
    \/ \E r \in StartRequests : CreateSession(r) /\ UNCHANGED <<sessionVars, limiterVars, emailVars>>
    \/ \E r \in StartRequests : ReadUsage(r) /\ UNCHANGED <<sessionVars, limiterVars, emailVars>>
    \/ \E r \in StartRequests : WriteUsage(r) /\ UNCHANGED <<sessionVars, limiterVars, emailVars>>

SpecUsage == InitUsage /\ [][NextUsage]_vars

\* ------------------------------------------------------------------------
\* Properties of the daily limit (under SpecUsage)
\* ------------------------------------------------------------------------
\* the user is on the free tier
FreeTier(user_id) ==
    get_effective_tier(get_subscription(subscriptions, user_id)) = "free"

\* C19: a free-tier user never has more than 3 sessions started on one day,
\* also when start requests of the user overlap; a request made at daily
\* usage 3 is answered 402 and starts no session.
C19_DailyLimit ==
    \A u \in UserIds : FreeTier(u) => sessions_started[u] <= 3

\* ------------------------------------------------------------------------
\* Specification of send_learning_report calls that may overlap
\* ------------------------------------------------------------------------
InitEmail ==
    /\ DbInit
    /\ call = NoCall
    /\ ret = NoRet
    /\ ServiceInit

NextEmail ==
    \/ \E c \in SendCalls : CheckPreference(c) /\ UNCHANGED <<sessionVars, limiterVars, usageVars>>
    \/ \E c \in SendCalls : ReadThrottle(c) /\ UNCHANGED <<sessionVars, limiterVars, usageVars>>
    \/ \E c \in SendCalls : WriteThrottle(c) /\ UNCHANGED <<sessionVars, limiterVars, usageVars>>
    \/ \E c \in SendCalls : CheckIdempotency(c) /\ UNCHANGED <<sessionVars, limiterVars, usageVars>>
    \/ \E c \in SendCalls : InsertPending(c) /\ UNCHANGED <<sessionVars, limiterVars, usageVars>>
    \/ \E c \in SendCalls : SendEmail(c) /\ UNCHANGED <<sessionVars, limiterVars, usageVars>>
    \/ Unsubscribe /\ UNCHANGED <<sessionVars, limiterVars, usageVars>>
    \/ NextHour /\ UNCHANGED <<sessionVars, limiterVars, usageVars>>

SpecEmail == InitEmail /\ [][NextEmail]_vars

\* ------------------------------------------------------------------------
\* Properties of the report emails (under SpecEmail)
\* ------------------------------------------------------------------------
\* the number of log rows of the session's report that are SENT
SentRows(session_id) ==
    Cardinality({i \in 1..Len(email_send_logs) :
        /\ email_send_logs[i].idempotency_key =
               generate_idempotency_key(RecipientEmail, session_id)
        /\ email_send_logs[i].status = "sent"})

\* the caller's last call has ended
Returned(c) == send_calls[c].pc = "idle" /\ send_calls[c].result # "none"

\* at most one row of a report is SENT and the provider delivers it at most once
AtMostOnce ==
    \A s \in ReportSessionIds : SentRows(s) <= 1 /\ outbox[s].delivered <= 1

\* C20: across the calls made for one recipient and session at most one send
\* is recorded SENT and the provider delivers at most one report; every call
\* that ends when the report is already recorded SENT returns True and has
\* given nothing to the provider.
C20_SentOnceThenTrue ==
    /\ AtMostOnce
    /\ \A c \in SendCalls :
          Returned(c) /\ send_calls[c].after_sent =>
              send_calls[c].result = "True" /\ ~send_calls[c].sent

\* the sum of the send counts stored in the throttle rows from position i on
\* whose window began less than SESSION_REPORT_WINDOW hours ago; every call
\* that the throttle lets through adds at most one to it
RECURSIVE CountedSends(_)
CountedSends(i) ==
    IF i > Len(email_throttles) THEN 0
    ELSE (IF hour - email_throttles[i].window_start < SESSION_REPORT_WINDOW
          THEN email_throttles[i].send_count ELSE 0) + CountedSends(i + 1)

\* C21: check_and_increment_throttle lets through at most 5 session-report
\* sends for one email address within any 24 hours.
C21_FivePerDay == CountedSends(1) <= SESSION_REPORT_LIMIT

\* ------------------------------------------------------------------------
\* Further properties of the session endpoints (under Spec)
\* ------------------------------------------------------------------------
\* the step is a respond request that was rejected for the session's status
\* or for the length of the response
RespondRejected ==
    /\ response'.op = "respond"
    /\ response'.error \in {"SESSION_COMPLETED", "RESPONSE_TOO_SHORT"}

\* C22: a respond request rejected with SESSION_COMPLETED or
\* RESPONSE_TOO_SHORT leaves the session's layer, status and confusion count
\* as they were and records neither a hint nor a response; no response of
\* fewer than 10 characters is ever recorded as a turn.
C22_RejectedRespondNoEffect ==
    [][/\ RespondRejected =>
            /\ response'.status_code = 400
            /\ hint_sessions' = hint_sessions
            /\ hint_contents' = hint_contents
            /\ student_responses' = student_responses
       /\ \A k \in 1..Len(student_responses') :
             student_responses'[k].char_count >= 10]_vars

\* a too-short response was rejected in a session that has two confused turns
\* behind it and is still Active with confusion count 2
C22_Witness ==
    /\ response.op = "respond"
    /\ response.error = "RESPONSE_TOO_SHORT"
    /\ Started
    /\ hint_sessions[1].status = "active"
    /\ hint_sessions[1].confusion_count = 2
    /\ Len(student_responses) = 2

\* the layers determine_transition is written for
ProgressLayers == {"concept", "strategy", "step"}

\* C23: determine_transition is invoked on respond turns only, with the
\* session's current layer, and that layer is Concept, Strategy or Step: a
\* session at Completed or Revealed never reaches the call.
C23_NoTerminalLayerPassed ==
    [][RespondTurn =>
          /\ TurnRow.layer = hint_sessions[TurnRow.session_id].current_layer
          /\ TurnRow.layer \in ProgressLayers]_vars

\* three turns have gone through determine_transition, the session is at
\* Completed, and a further respond request was turned away before the call
C23_Witness ==
    /\ Started
    /\ hint_sessions[1].current_layer = "completed"
    /\ Len(student_responses) = 3
    /\ response.op = "respond"
    /\ response.error = "SESSION_COMPLETED"

\* the hint recorded last
LastHint == hint_contents[Len(hint_contents)]

\* C24: every hint recorded in a session has layer Concept, Strategy or Step,
\* and the respond turn that moves the session to Completed records one new
\* hint, with layer Step.
C24_HintLayersNonTerminal ==
    [][/\ \A k \in 1..Len(hint_contents') : hint_contents'[k].layer \in ProgressLayers
       /\ (RespondTurn /\ hint_sessions'[TurnRow.session_id].current_layer = "completed") =>
             /\ Len(hint_contents') = Len(hint_contents) + 1
             /\ hint_contents'[Len(hint_contents')].layer = "step"]_vars

\* the last turn moved the session from Step to Completed and its hint is
\* stored with layer Step
C24_Witness ==
    /\ response.op = "respond"
    /\ response.status_code = 200
    /\ response.previous_layer = "step"
    /\ response.current_layer = "completed"
    /\ hint_sessions[1].current_layer = "completed"
    /\ LastHint.layer = "step"

\* C25: the status and the current layer of a session agree: the status is
\* Active exactly at Concept, Strategy and Step, Completed exactly at layer
\* Completed and Revealed exactly at layer Revealed.
C25_StatusMatchesLayer ==
    \A i \in 1..Len(hint_sessions) :
        /\ hint_sessions[i].status = "active"
               <=> hint_sessions[i].current_layer \in ProgressLayers
        /\ hint_sessions[i].status = "completed"
               <=> hint_sessions[i].current_layer = "completed"
        /\ hint_sessions[i].status = "revealed"
               <=> hint_sessions[i].current_layer = "revealed"

\* a session completed by a respond turn and then revealed carries Revealed
\* in both fields
C25_Witness ==
    /\ Started
    /\ hint_sessions[1].status = "revealed"
    /\ hint_sessions[1].current_layer = "revealed"
    /\ \E k \in 1..Len(student_responses) :
          student_responses[k].layer = "step"
              /\ student_responses[k].understanding_level = "understood"

\* the positions in hint_contents of the hints of a session and layer
HintsOf(session_id, layer) ==
    {k \in 1..Len(hint_contents) :
        hint_contents[k].session_id = session_id /\ hint_contents[k].layer = layer}

\* C26: within a session the hints of one layer carry the sequence numbers
\* 1, 2, 3, ... in order of creation, so no two of them share a number.
C26_SequencePerLayer ==
    \A session_id \in 1..Len(hint_sessions), layer \in HintLayer :
        \A k \in HintsOf(session_id, layer) :
            hint_contents[k].sequence =
                Cardinality({j \in HintsOf(session_id, layer) : j <= k})

\* C27: once the confusion count of a session has reached the threshold of 3,
\* every further confused or explicitly confused turn is a downgrade turn that
\* raises the count by 1, an Understood turn sets the count to 0 and is no
\* downgrade, and no other request changes the count.
C27_DowngradeRunContinues ==
    [][(Started /\ hint_sessions[1].confusion_count >= CONFUSION_THRESHOLD) =>
          IF RespondTurn
          THEN IF TurnRow.understanding_level \in ConfusedLevels
               THEN /\ response'.is_downgrade
                    /\ hint_contents'[Len(hint_contents')].is_downgrade
                    /\ hint_sessions'[1].confusion_count = hint_sessions[1].confusion_count + 1
               ELSE /\ ~response'.is_downgrade
                    /\ hint_sessions'[1].confusion_count = 0
          ELSE hint_sessions'[1].confusion_count = hint_sessions[1].confusion_count]_vars

\* a fourth confused turn in a row was a downgrade turn again and raised the
\* count to 4
C27_Witness ==
    /\ Started
    /\ hint_sessions[1].confusion_count = CONFUSION_THRESHOLD + 1
    /\ response.op = "respond"
    /\ response.is_downgrade
    /\ response.confusion_count = CONFUSION_THRESHOLD + 1
    /\ LastHint.is_downgrade
    /\ hint_contents[Len(hint_contents) - 1].is_downgrade

\* C28: for every session the can_reveal_solution flag that GET
\* /sessions/{id} reports equals SessionManager.can_reveal_solution of the
\* session's current layer and status.
C28_GetSessionRevealFlag ==
    \A i \in 1..Len(hint_sessions) :
        get_session_can_reveal(hint_sessions[i])
            = can_reveal_solution(hint_sessions[i].current_layer, hint_sessions[i].status)

\* ------------------------------------------------------------------------
\* Further properties of the generators (under SpecGen)
\* ------------------------------------------------------------------------
\* the lower-cased content contains one of NEGATIVE_WORDS
HasNegativeWord(content) ==
    \E w \in 1..Len(NEGATIVE_WORDS) : Contains(lower(content), NEGATIVE_WORDS[w])

\* the reason the post-processor is to report for a content and an answer:
\* the first of the four checks that matches
FirstReason(content, answer) ==
    IF strip(content) = <<>> THEN "empty_content"
    ELSE IF MatchesAnswerPattern(content) THEN "answer_leak"
    ELSE IF answer # <<>> /\ Contains(content, answer) THEN "direct_answer_leak"
    ELSE IF HasNegativeWord(content) THEN "negative_word"
    ELSE "none"

\* C29: the post-processor reports the first check that matches, in the order
\* empty content, answer-leak pattern, known-answer substring, negative word;
\* a content with an answer-leak pattern and a negative word gets answer_leak,
\* and a content flagged negative_word is returned unmodified.
C29_FilterOrder ==
    (ret.done /\ call.op = "process") =>
        /\ ret.processed.filter_reason = FirstReason(call.llm.text, call.known_answer)
        /\ ret.processed.was_filtered <=> ret.processed.filter_reason # "none"
        /\ ret.processed.filter_reason \in {"negative_word", "none"} =>
               ret.processed.content = call.llm.text
        /\ (MatchesAnswerPattern(call.llm.text) /\ HasNegativeWord(call.llm.text)) =>
               ret.processed.filter_reason = "answer_leak"

\* the content "错x=3", which has a negative word and matches an answer-leak
\* pattern, was flagged answer_leak
C29_Witness ==
    /\ ret.done
    /\ call.op = "process"
    /\ call.llm.text = <<"u9519", "x", "=", "3">>
    /\ ret.processed.filter_reason = "answer_leak"
    /\ ret.processed.content = <<"u9519">> \o Ellipsis

\* the collaborator gives no usable content: it is absent, it raises, or its
\* completion is empty or whitespace only
NoUsableContent(llm) ==
    \/ llm = LLMAbsent
    \/ llm = LLMRaises
    \/ llm.kind = "returns" /\ strip(llm.text) = <<>>

\* C30 as claimed: when the collaborator gives no usable content,
\* HintGenerator.generate returns the static fallback of the requested locale,
\* layer and problem type.
C30_NoContentFallback ==
    (ret.done /\ call.op = "hint" /\ NoUsableContent(call.llm)) =>
        ret.hint.content = get_fallback(call.problem_type, call.layer, call.locale)

\* C30 amended: when the collaborator is absent or raises, or the layer has no
\* prompt, generate returns the static fallback of the requested locale, layer
\* and problem type; when the collaborator is asked and its completion is
\* empty or whitespace only, generate returns the post-processor's fixed
\* sentence for empty content, whatever the locale, layer and problem type.
C30_FallbackOrEmptyContentHint ==
    (ret.done /\ call.op = "hint" /\ NoUsableContent(call.llm)) =>
        ret.hint.content =
            IF call.llm.kind = "returns"
               /\ call.layer \in (IF is_english(call.locale) THEN LAYER_PROMPTS_EN
                                  ELSE LAYER_PROMPTS_ZH)
            THEN EmptyContentHint
            ELSE get_fallback(call.problem_type, call.layer, call.locale)

\* a whitespace-only completion for an English Step hint was answered with
\* the fixed sentence, which is not the static fallback
C30_Witness ==
    /\ ret.done
    /\ call.op = "hint"
    /\ call.llm = LLMReturns(<<" ">>)
    /\ call.layer = "step"
    /\ call.locale = DefaultLocale
    /\ ret.processed.filter_reason = "empty_content"
    /\ ret.hint.content = EmptyContentHint
    /\ ret.hint.content # get_fallback(call.problem_type, call.layer, call.locale)

====
